---- MODULE Spec2Model ----
(***************************************************************************)
(* kx-stripe runtime utilities: idempotency-key derivation                 *)
(* (utils/idempotency), metadata sanitization (utils/metadata) and the     *)
(* provider-call wrappers that consume them.                               *)
(*                                                                         *)
(* JavaScript values are records tagged by t.  A JavaScript string is a    *)
(* sequence of one-character strings, so that length, prefix and           *)
(* code-unit order are computed and not assumed.  An object is the         *)
(* sequence of its own enumerable properties <<key, value>> in the order   *)
(* the language enumerates them.                                           *)
(***************************************************************************)
EXTENDS Integers, Sequences, FiniteSets, TLC

VARIABLES
  kpc,        \* key derivation: "input" before the calls, "done" after
  operation,  \* key derivation: the operation tag
  params1,    \* key derivation: first params value
  params2,    \* key derivation: second params value
  key1,       \* generateIdempotencyKey(operation, params1) once derived
  key2,       \* generateIdempotencyKey(operation, params2) once derived
  mpc,        \* metadata: "input", "once", "twice" or "threw"
  metadata,   \* metadata: the mapping handed to createMetadata
  sanitized,  \* createMetadata(metadata) once computed
  resanitized, \* createMetadata(sanitized) once computed
  calls,      \* wrappers: the invocations made, each waiting at its
              \* await or with its outcome
  requests,   \* wrappers: the requests the provider has received, each
              \* unanswered or with its response
  util,       \* metadata helpers: the call made and what it returned
  cachedStripeClient, \* client cache: the cached client, or null
  cachedSecretArn,    \* client cache: the ARN the client was built for
  pending,    \* client cache: the getInstance calls awaiting their secret
  events,     \* client cache: what the calls did, in order
  settled,    \* client cache: the latest return or throw of getInstance
  secretsManager, \* client cache: the answers Secrets Manager may give
  callsLeft   \* client cache: the calls the caller has yet to make

keyVars == <<kpc, operation, params1, params2, key1, key2>>
metaVars == <<mpc, metadata, sanitized, resanitized>>
wrapVars == <<calls, requests>>
utilVars == <<util>>
cacheVars == <<cachedStripeClient, cachedSecretArn, pending, events, settled,
               secretsManager, callsLeft>>

vars == <<keyVars, metaVars, wrapVars, utilVars, cacheVars>>

(***************************************************************************)
(* Program constants                                                       *)
(***************************************************************************)
HashChars == 32          \* .substring(0, 32) of the hex digest
MaxKeys == 50            \* keys.length > 50
MaxKeyLength == 40       \* key.length > 40
MaxValueLength == 500    \* filtered[key].length > 500

(***************************************************************************)
(* JavaScript values                                                       *)
(***************************************************************************)
Undefined == [t |-> "undefined"]
Null == [t |-> "null"]
NaN == [t |-> "number", special |-> "NaN"]
PosInfinity == [t |-> "number", special |-> "Infinity"]
NegInfinity == [t |-> "number", special |-> "-Infinity"]
NegZero == [t |-> "number", special |-> "-0"]
Num(n) == [t |-> "number", n |-> n]
Bool(b) == [t |-> "boolean", b |-> b]
Str(s) == [t |-> "string", s |-> s]
Arr(items) == [t |-> "array", items |-> items]
Obj(props) == [t |-> "object", props |-> props]

\* typeof v
TypeOf(v) ==
  IF v.t \in {"null", "array", "object"} THEN "object" ELSE v.t

(***************************************************************************)
(* Strings                                                                 *)
(***************************************************************************)
\* The printable ASCII characters in code-unit order: U+0020 to U+005F, and
\* U+0061 to U+007E (U+0060 cannot be written in a string of this language).
PrintableLow ==
  << " ", "!", "\"", "#", "$", "%", "&", "'", "(", ")", "*", "+", ",", "-",
     ".", "/", "0", "1", "2", "3", "4", "5", "6", "7", "8", "9", ":", ";",
     "<", "=", ">", "?", "@", "A", "B", "C", "D", "E", "F", "G", "H", "I",
     "J", "K", "L", "M", "N", "O", "P", "Q", "R", "S", "T", "U", "V", "W",
     "X", "Y", "Z", "[", "\\", "]", "^", "_" >>

PrintableHigh ==
  << "a", "b", "c", "d", "e", "f", "g", "h", "i", "j", "k", "l", "m", "n",
     "o", "p", "q", "r", "s", "t", "u", "v", "w", "x", "y", "z", "{", "|",
     "}", "~" >>

\* The UTF-16 code unit of a printable ASCII character.
CodeUnit ==
  [c \in {PrintableLow[i] : i \in 1..Len(PrintableLow)}
          \cup {PrintableHigh[i] : i \in 1..Len(PrintableHigh)} |->
     IF \E i \in 1..Len(PrintableLow) : PrintableLow[i] = c
     THEN 31 + (CHOOSE i \in 1..Len(PrintableLow) : PrintableLow[i] = c)
     ELSE 96 + (CHOOSE i \in 1..Len(PrintableHigh) : PrintableHigh[i] = c)]

Digits == <<"0", "1", "2", "3", "4", "5", "6", "7", "8", "9">>

\* a < b for two strings: the comparison of Array.prototype.sort's default
\* order, code unit by code unit, a proper prefix first.
RECURSIVE StrLess(_, _)
StrLess(a, b) ==
  IF a = <<>> THEN b # <<>>
  ELSE IF b = <<>> THEN FALSE
  ELSE IF Head(a) = Head(b) THEN StrLess(Tail(a), Tail(b))
  ELSE CodeUnit[Head(a)] < CodeUnit[Head(b)]

\* s.substring(from, to) for 0 <= from <= to
Substring(s, from, to) ==
  SubSeq(s, from + 1, IF to < Len(s) THEN to ELSE Len(s))

\* Number::toString of a non-negative integer
RECURSIVE NatToString(_)
NatToString(n) ==
  IF n < 10 THEN <<Digits[n + 1]>>
  ELSE NatToString(n \div 10) \o <<Digits[(n % 10) + 1]>>

\* new TypeError(message)
TypeError(message) ==
  [t |-> "error", class |-> "TypeError", message |-> message]

\* The error of OrdinaryToPrimitive when neither toString nor valueOf gives
\* a primitive value.
CannotConvert ==
  TypeError(<<"C", "a", "n", "n", "o", "t", " ", "c", "o", "n", "v", "e", "r",
              "t", " ", "o", "b", "j", "e", "c", "t", " ", "t", "o", " ", "p",
              "r", "i", "m", "i", "t", "i", "v", "e", " ", "v", "a", "l", "u",
              "e">>)

\* a function that ends by throwing error
Thrown(error) == [t |-> "threw", error |-> error]

\* String(v) throws: an object with an own property toString has a value
\* there that is not callable (no value of the model is), and the valueOf it
\* inherits returns the object itself; an array joins the conversions of its
\* elements other than undefined and null.
RECURSIVE StringThrows(_)
StringThrows(v) ==
  IF v.t = "object"
  THEN \E i \in 1..Len(v.props) :
         v.props[i][1] = <<"t", "o", "S", "t", "r", "i", "n", "g">>
  ELSE IF v.t = "array"
  THEN \E i \in 1..Len(v.items) :
         /\ v.items[i].t \notin {"undefined", "null"}
         /\ StringThrows(v.items[i])
  ELSE FALSE

\* String(v) / a template literal of v for the values of the model: the
\* string, or the TypeError thrown
RECURSIVE ToStringJS(_)
ToStringJS(v) ==
  CASE v.t = "undefined" -> <<"u", "n", "d", "e", "f", "i", "n", "e", "d">>
    [] v.t = "null" -> <<"n", "u", "l", "l">>
    [] v.t = "boolean" ->
         IF v.b THEN <<"t", "r", "u", "e">> ELSE <<"f", "a", "l", "s", "e">>
    [] v.t = "number" ->
         IF "n" \in DOMAIN v
         THEN (IF v.n < 0 THEN <<"-">> \o NatToString(-v.n)
               ELSE NatToString(v.n))
         ELSE IF v.special = "NaN" THEN <<"N", "a", "N">>
         ELSE IF v.special = "-0" THEN <<"0">>
         ELSE IF v.special = "-Infinity"
         THEN <<"-", "I", "n", "f", "i", "n", "i", "t", "y">>
         ELSE <<"I", "n", "f", "i", "n", "i", "t", "y">>
    [] v.t = "string" -> v.s
    [] v.t = "array" ->
         IF StringThrows(v) THEN CannotConvert
         ELSE IF v.items = <<>> THEN <<>>
         ELSE LET first == IF v.items[1].t \in {"undefined", "null"} THEN <<>>
                           ELSE ToStringJS(v.items[1])
              IN IF Len(v.items) = 1 THEN first
                 ELSE first \o <<",">> \o ToStringJS(Arr(Tail(v.items)))
    [] v.t = "object" ->
         IF StringThrows(v) THEN CannotConvert
         ELSE <<"[", "o", "b", "j", "e", "c", "t", " ",
                "O", "b", "j", "e", "c", "t", "]">>

(***************************************************************************)
(* Objects: own enumerable string-keyed properties in enumeration order    *)
(* (array-index keys first, ascending; then the others in insertion order) *)
(***************************************************************************)
\* The largest array index, 2^32 - 2, in decimal digits.
MaxArrayIndex == <<"4", "2", "9", "4", "9", "6", "7", "2", "9", "4">>

\* a < b for two canonical decimal numerals: the shorter one is the smaller,
\* and of two of one length the one that comes first digit by digit.
IndexLess(a, b) ==
  \/ Len(a) < Len(b)
  \/ Len(a) = Len(b) /\ StrLess(a, b)

\* An array index: the canonical numeral ("0", or digits with no leading 0)
\* of an integer from 0 to 2^32 - 2.
IsArrayIndex(k) ==
  /\ Len(k) \in 1..Len(MaxArrayIndex)
  /\ \A i \in 1..Len(k) : k[i] \in {Digits[d] : d \in 1..10}
  /\ (Len(k) > 1 => k[1] # "0")
  /\ ~IndexLess(MaxArrayIndex, k)

RECURSIVE IndexValue(_)
IndexValue(k) ==
  IF k = <<>> THEN 0
  ELSE 10 * IndexValue(SubSeq(k, 1, Len(k) - 1))
       + (CodeUnit[k[Len(k)]] - CodeUnit["0"])

HasOwn(props, k) == \E i \in 1..Len(props) : props[i][1] = k

\* obj[k] for an own property k
ObjGet(props, k) == props[CHOOSE i \in 1..Len(props) : props[i][1] = k][2]

\* CreateDataProperty(obj, k, v): an own property k keeps its place and takes
\* the value; a new array index goes among the indices in ascending order, any
\* other new key after all the properties.
ObjDefine(props, k, v) ==
  IF HasOwn(props, k)
  THEN LET at == CHOOSE i \in 1..Len(props) : props[i][1] = k
       IN SubSeq(props, 1, at - 1) \o << <<k, v>> >>
            \o SubSeq(props, at + 1, Len(props))
  ELSE IF IsArrayIndex(k)
  THEN LET before ==
             Cardinality({i \in 1..Len(props) :
                            /\ IsArrayIndex(props[i][1])
                            /\ IndexLess(props[i][1], k)})
       IN SubSeq(props, 1, before) \o << <<k, v>> >>
            \o SubSeq(props, before + 1, Len(props))
  ELSE Append(props, <<k, v>>)

\* The name of the accessor Object.prototype.__proto__.
ProtoKey == <<"_", "_", "p", "r", "o", "t", "o", "_", "_">>

\* obj[k] = v on an object whose prototype is Object.prototype: a key that
\* is no own property and names the accessor __proto__ goes to its setter,
\* which changes or keeps the prototype and creates no property; every other
\* assignment defines the property.
ObjSet(props, k, v) ==
  IF ~HasOwn(props, k) /\ k = ProtoKey THEN props
  ELSE ObjDefine(props, k, v)

\* Object.keys(obj)
ObjectKeys(props) == [i \in 1..Len(props) |-> props[i][1]]

\* entries.forEach(([k, v]) => { obj[k] = v }): the assignments in order,
\* those of the first half of the entries and then, on the object they leave
\* (whose length the guard reads, so that it is built first), the others.
RECURSIVE AssignAll(_, _)
AssignAll(props, entries) ==
  IF entries = <<>> THEN props
  ELSE IF Len(entries) = 1 THEN ObjSet(props, entries[1][1], entries[1][2])
  ELSE LET half == Len(entries) \div 2
           first == AssignAll(props, SubSeq(entries, 1, half))
       IN IF Len(first) >= Len(props)
          THEN AssignAll(first, SubSeq(entries, half + 1, Len(entries)))
          ELSE first

\* The same entries defined one by one, in the same order of evaluation.
RECURSIVE DefineAll(_, _)
DefineAll(props, entries) ==
  IF entries = <<>> THEN props
  ELSE IF Len(entries) = 1 THEN ObjDefine(props, entries[1][1], entries[1][2])
  ELSE LET half == Len(entries) \div 2
           first == DefineAll(props, SubSeq(entries, 1, half))
       IN IF Len(first) >= Len(props)
          THEN DefineAll(first, SubSeq(entries, half + 1, Len(entries)))
          ELSE first

\* Object.fromEntries(entries): CreateDataProperty for each entry in order
FromEntries(entries) == DefineAll(<<>>, entries)

(***************************************************************************)
(* JSON.stringify                                                          *)
(***************************************************************************)
\* QuoteJSONString: the quotation mark and the reverse solidus are escaped.
RECURSIVE EscapeJSON(_)
EscapeJSON(s) ==
  IF s = <<>> THEN <<>>
  ELSE (IF Head(s) \in {"\"", "\\"} THEN <<"\\", Head(s)>> ELSE <<Head(s)>>)
       \o EscapeJSON(Tail(s))

QuoteJSONString(s) == <<"\"">> \o EscapeJSON(s) \o <<"\"">>

\* a.join(",") for a sequence of strings
RECURSIVE JoinComma(_)
JoinComma(parts) ==
  IF parts = <<>> THEN <<>>
  ELSE IF Len(parts) = 1 THEN parts[1]
  ELSE parts[1] \o <<",">> \o JoinComma(Tail(parts))

\* SerializeJSONProperty yields undefined for these values.
JSONOmitted(v) == v.t = "undefined"

\* SerializeJSONProperty for a value it does not omit.
RECURSIVE SerializeJSON(_)
SerializeJSON(v) ==
  CASE v.t = "null" -> <<"n", "u", "l", "l">>
    [] v.t = "boolean" -> ToStringJS(v)
    [] v.t = "number" ->
         IF "n" \in DOMAIN v \/ v.special = "-0" THEN ToStringJS(v)
         ELSE <<"n", "u", "l", "l">>
    [] v.t = "string" -> QuoteJSONString(v.s)
    [] v.t = "array" ->
         <<"[">>
         \o JoinComma([i \in 1..Len(v.items) |->
                         IF JSONOmitted(v.items[i]) THEN <<"n", "u", "l", "l">>
                         ELSE SerializeJSON(v.items[i])])
         \o <<"]">>
    [] v.t = "object" ->
         LET kept == SelectSeq(v.props, LAMBDA e : ~JSONOmitted(e[2]))
         IN <<"{">>
            \o JoinComma([i \in 1..Len(kept) |->
                            QuoteJSONString(kept[i][1]) \o <<":">>
                            \o SerializeJSON(kept[i][2])])
            \o <<"}">>

\* JSON.stringify(v): a string, or undefined
JSONStringify(v) == IF JSONOmitted(v) THEN Undefined ELSE Str(SerializeJSON(v))

(***************************************************************************)
(* JSON.parse, for texts of printable characters whose numbers are         *)
(* integers and whose strings escape only the quote, the backslash and the *)
(* solidus.  A result with ok = FALSE stands for the SyntaxError thrown.   *)
(***************************************************************************)
ParseFailed == [ok |-> FALSE]
Parsed(v, next) == [ok |-> TRUE, v |-> v, next |-> next]

\* the first position from i on that holds no space
RECURSIVE SkipSpaces(_, _)
SkipSpaces(s, i) ==
  IF i <= Len(s) /\ s[i] = " " THEN SkipSpaces(s, i + 1) ELSE i

At(s, i, c) == i <= Len(s) /\ s[i] = c

IsDigit(c) == c \in {Digits[d] : d \in 1..10}

\* the characters of a string literal from position j on, up to its closing
\* quote; acc holds the characters read so far
RECURSIVE ScanJSONString(_, _, _)
ScanJSONString(s, j, acc) ==
  IF j > Len(s) THEN ParseFailed
  ELSE IF s[j] = "\"" THEN Parsed(Str(acc), j + 1)
  ELSE IF s[j] = "\\"
  THEN (IF j + 1 <= Len(s) /\ s[j + 1] \in {"\"", "\\", "/"}
        THEN ScanJSONString(s, j + 2, Append(acc, s[j + 1]))
        ELSE ParseFailed)
  ELSE ScanJSONString(s, j + 1, Append(acc, s[j]))

\* the first position from j on that holds no digit
RECURSIVE SkipDigits(_, _)
SkipDigits(s, j) ==
  IF j <= Len(s) /\ IsDigit(s[j]) THEN SkipDigits(s, j + 1) ELSE j

\* an integer literal -? (0 | [1-9][0-9]*), given its digits and the
\* position after them
JSONNumber(digits, next, negative) ==
  IF digits = <<>> \/ (Len(digits) > 1 /\ digits[1] = "0") THEN ParseFailed
  ELSE IF negative /\ digits = <<"0">> THEN Parsed(NegZero, next)
  ELSE IF negative THEN Parsed(Num(-IndexValue(digits)), next)
  ELSE Parsed(Num(IndexValue(digits)), next)

\* the number at position i
ParseJSONNumber(s, i) ==
  IF At(s, i, "-")
  THEN JSONNumber(SubSeq(s, i + 1, SkipDigits(s, i + 1) - 1),
                  SkipDigits(s, i + 1), TRUE)
  ELSE JSONNumber(SubSeq(s, i, SkipDigits(s, i) - 1), SkipDigits(s, i), FALSE)

\* the literal word at position i
ParseJSONWord(s, i, word, v) ==
  IF i + Len(word) - 1 <= Len(s) /\ SubSeq(s, i, i + Len(word) - 1) = word
  THEN Parsed(v, i + Len(word))
  ELSE ParseFailed

RECURSIVE ParseJSONValue(_, _), ParseJSONMembers(_, _, _),
    ParseJSONElements(_, _, _)

\* after a member: a comma and the next member, or the closing brace
MemberEnd(s, assigned, after) ==
  IF At(s, after,
      ",") THEN ParseJSONMembers(s, SkipSpaces(s, after + 1), assigned)
  ELSE IF At(s, after, "}") THEN Parsed(Obj(assigned), after + 1)
  ELSE ParseFailed

\* the value of a member is defined as a property under its name
\* (CreateDataProperty); a name that occurs again replaces the earlier value
MemberValue(s, props, name, value) ==
  IF ~value.ok THEN ParseFailed
  ELSE MemberEnd(s, ObjDefine(props, name.v.s, value.v), SkipSpaces(s,
      value.next))

\* the colon after a member's name, and its value
MemberColon(s, props, name, colon) ==
  IF ~At(s, colon, ":") THEN ParseFailed
  ELSE MemberValue(s, props, name, ParseJSONValue(s, SkipSpaces(s,
      colon + 1)))

MemberName(s, props, name) ==
  IF ~name.ok THEN ParseFailed
  ELSE MemberColon(s, props, name, SkipSpaces(s, name.next))

\* the members of an object from position i on, up to its closing brace
ParseJSONMembers(s, i, props) ==
  IF ~At(s, i, "\"") THEN ParseFailed
  ELSE MemberName(s, props, ScanJSONString(s, i + 1, <<>>))

\* after an element: a comma and the next element, or the closing bracket
ElementEnd(s, items, after) ==
  IF At(s, after,
      ",") THEN ParseJSONElements(s, SkipSpaces(s, after + 1), items)
  ELSE IF At(s, after, "]") THEN Parsed(Arr(items), after + 1)
  ELSE ParseFailed

ElementValue(s, items, value) ==
  IF ~value.ok THEN ParseFailed
  ELSE ElementEnd(s, Append(items, value.v), SkipSpaces(s, value.next))

\* the elements of an array from position i on, up to its closing bracket
ParseJSONElements(s, i, items) == ElementValue(s, items, ParseJSONValue(s, i))

\* the value that starts at position i
ParseJSONValue(s, i) ==
  IF i > Len(s) THEN ParseFailed
  ELSE IF s[i] = "{"
  THEN (IF At(s, SkipSpaces(s, i + 1), "}")
        THEN Parsed(Obj(<<>>), SkipSpaces(s, i + 1) + 1)
        ELSE ParseJSONMembers(s, SkipSpaces(s, i + 1), <<>>))
  ELSE IF s[i] = "["
  THEN (IF At(s, SkipSpaces(s, i + 1), "]")
        THEN Parsed(Arr(<<>>), SkipSpaces(s, i + 1) + 1)
        ELSE ParseJSONElements(s, SkipSpaces(s, i + 1), <<>>))
  ELSE IF s[i] = "\"" THEN ScanJSONString(s, i + 1, <<>>)
  ELSE IF s[i] = "-" \/ IsDigit(s[i]) THEN ParseJSONNumber(s, i)
  ELSE IF s[i] = "t" THEN ParseJSONWord(s, i, <<"t", "r", "u",
      "e">>, Bool(TRUE))
  ELSE IF s[i] = "f" THEN ParseJSONWord(s, i, <<"f", "a", "l", "s",
      "e">>, Bool(FALSE))
  ELSE IF s[i] = "n" THEN ParseJSONWord(s, i, <<"n", "u", "l", "l">>, Null)
  ELSE ParseFailed

\* the value must be all of the text, spaces aside
WholeText(text, value) ==
  IF value.ok /\ SkipSpaces(text, value.next) > Len(text) THEN value
  ELSE ParseFailed

\* JSON.parse(text)
JSONParse(text) == WholeText(text, ParseJSONValue(text, SkipSpaces(text, 1)))

(***************************************************************************)
(* SHA-256 (node:crypto).  The digest is not computed: its hexadecimal     *)
(* text is 64 symbols that stand for the hex digits of the digest of the   *)
(* message, equal for two messages exactly when the messages are equal     *)
(* (collision freedom of the digest and of its 32-digit prefix).           *)
(***************************************************************************)
RECURSIVE Flatten(_)
Flatten(s) ==
  IF s = <<>> THEN ""
  ELSE IF Len(s) = 1 THEN s[1]
  ELSE Flatten(SubSeq(s, 1, Len(s) \div 2))
       \o Flatten(SubSeq(s, Len(s) \div 2 + 1, Len(s)))

Sha256Hex(msg) ==
  LET digit == "sha256:" \o Flatten(msg)
  IN [i \in 1..64 |-> digit]

(***************************************************************************)
(* utils/idempotency                                                       *)
(***************************************************************************)
\* Array.prototype.sort() with the default order, by insertion
RECURSIVE ArraySort(_)
ArraySort(a) ==
  IF a = <<>> THEN <<>>
  ELSE LET rest == ArraySort(Tail(a))
           n == Cardinality({i \in 1..Len(rest) : StrLess(rest[i], Head(a))})
       IN SubSeq(rest, 1, n) \o <<Head(a)>> \o SubSeq(rest, n + 1, Len(rest))

RECURSIVE sortObjectKeys(_)
RECURSIVE AssignSorted(_, _, _)

\* Mutant of sortObjectKeys: the keys are taken in the object's own order,
\* the call of sort() is missing.
sortObjectKeysUnsorted(obj) ==
  IF obj.t = "null" \/ TypeOf(obj) # "object" THEN obj
  ELSE IF obj.t = "array"
  THEN Arr([i \in 1..Len(obj.items) |-> sortObjectKeys(obj.items[i])])
  ELSE Obj(AssignSorted(<<>>, ObjectKeys(obj.props), obj.props))

\* keys.forEach(key => { sorted[key] = sortObjectKeys(obj[key]) })
AssignSorted(sorted, keys, props) ==
  IF keys = <<>> THEN sorted
  ELSE AssignSorted(
         ObjSet(sorted, Head(keys), sortObjectKeys(ObjGet(props, Head(keys)))),
         Tail(keys), props)

sortObjectKeys(obj) ==
  IF obj.t = "null" \/ TypeOf(obj) # "object" THEN obj
  ELSE IF obj.t = "array"
  THEN Arr([i \in 1..Len(obj.items) |-> sortObjectKeys(obj.items[i])])
  ELSE Obj(AssignSorted(<<>>, ArraySort(ObjectKeys(obj.props)), obj.props))

\* Mutant of generateIdempotencyKey: the whole hex digest is kept.
generateIdempotencyKeyFullDigest(op, params) ==
  LET sortedParams == sortObjectKeys(params)
      paramsString == JSONStringify(sortedParams)
  IN op \o <<"-">> \o Sha256Hex(op \o <<":">> \o ToStringJS(paramsString))

\* generateIdempotencyKey that leaves the fields the wrappers default
\* (currency, description, duration) out of the hashed params
generateIdempotencyKeyOfRequired(op, params) ==
  LET required == Obj(SelectSeq(params.props, LAMBDA e :
                        e[1] \notin {<<"c", "u", "r", "r", "e", "n", "c",
                            "y">>, <<"d", "e", "s", "c", "r", "i", "p", "t",
                            "i", "o", "n">>,
                                     <<"d", "u", "r", "a", "t", "i", "o",
                                         "n">>}))
      sortedParams == sortObjectKeys(required)
      paramsString == JSONStringify(sortedParams)
      hash == Substring(Sha256Hex(op \o <<":">> \o ToStringJS(paramsString)),
                        0, HashChars)
  IN op \o <<"-">> \o hash

generateIdempotencyKey(op, params) ==
  LET sortedParams == sortObjectKeys(params)
      paramsString == JSONStringify(sortedParams)
      hash == Substring(Sha256Hex(op \o <<":">> \o ToStringJS(paramsString)),
                        0, HashChars)
  IN op \o <<"-">> \o hash

(***************************************************************************)
(* utils/metadata                                                          *)
(***************************************************************************)
\* Object.entries(metadata).forEach(([key, value]) => { if (value !==
\* undefined && value !== null) filtered[key] = String(value) })
StringifyDefined(entries) ==
  LET kept == SelectSeq(entries, LAMBDA e : e[2] # Undefined /\ e[2] # Null)
  IN IF \E i \in 1..Len(kept) : StringThrows(kept[i][2])
     THEN Thrown(CannotConvert)
     ELSE AssignAll(<<>>, [i \in 1..Len(kept) |->
                            <<kept[i][1], Str(ToStringJS(kept[i][2]))>>])

\* String(value) throws for a value of the mapping that is neither undefined
\* nor null, and the error leaves createMetadata
StringifyThrows(entries) ==
  \E i \in 1..Len(entries) :
    /\ entries[i][2] # Undefined
    /\ entries[i][2] # Null
    /\ StringThrows(entries[i][2])

\* Mutant of FirstEntries: the slice stops one entry early.
FirstEntriesOneShort(filtered) ==
  FromEntries(SubSeq(filtered, 1,
                     IF MaxKeys - 1 < Len(filtered) THEN MaxKeys - 1
                     ELSE Len(filtered)))

\* Object.fromEntries(Object.entries(filtered).slice(0, 50))
FirstEntries(filtered) ==
  FromEntries(SubSeq(filtered, 1,
                     IF MaxKeys < Len(filtered) THEN MaxKeys ELSE Len(filtered)))

\* one pass of keys.forEach: the truncated key and the truncated value
TruncateEntry(key, value) ==
  LET sanitizedKey ==
        IF Len(key) > MaxKeyLength THEN Substring(key, 0, MaxKeyLength) ELSE key
      sanitizedValue ==
        IF Len(value.s) > MaxValueLength
        THEN Str(Substring(value.s, 0, MaxValueLength))
        ELSE value
  IN <<sanitizedKey, sanitizedValue>>

\* createMetadata that walks the keys from the last to the first, so that of
\* two keys with one truncated key the one enumerated first prevails
createMetadataFirstWins(md) ==
  LET filtered == StringifyDefined(md)
      keys == ObjectKeys(filtered)
  IN IF StringifyThrows(md) THEN filtered
     ELSE IF Len(keys) > MaxKeys
     THEN FirstEntries(filtered)
     ELSE AssignAll(<<>>, [i \in 1..Len(keys) |->
                            TruncateEntry(keys[Len(keys) + 1 - i],
                                          ObjGet(filtered,
                                                 keys[Len(keys) + 1 - i]))])

\* the sanitized mapping, or what String(value) throws
createMetadata(md) ==
  LET filtered == StringifyDefined(md)
      keys == ObjectKeys(filtered)
  IN IF StringifyThrows(md) THEN filtered
     ELSE IF Len(keys) > MaxKeys
     THEN FirstEntries(filtered)
     ELSE AssignAll(<<>>, [i \in 1..Len(keys) |->
                            TruncateEntry(keys[i], ObjGet(filtered, keys[i]))])

(***************************************************************************)
(* Inputs of createMetadata                                                *)
(***************************************************************************)
MaxSmall == 3      \* entries of a small mapping
MaxEntries == 60   \* entries of a large mapping
LongKey == 50      \* length of an over-long key
LongValue == 600   \* length of an over-long value

Repeat(c, n) == [i \in 1..n |-> c]

SmallKeys == {<<"a">>, <<"b">>, <<"c">>, <<"1">>}
SmallValues == {Str(<<"1">>), Undefined, Null, Num(5), Bool(FALSE)}

\* every mapping built by at most MaxSmall assignments to distinct keys
SmallMetadata ==
  UNION {{FromEntries(es) :
            es \in {q \in [1..n -> SmallKeys \X SmallValues] :
                      \A i, j \in 1..n : i # j => q[i][1] # q[j][1]}} :
         n \in 0..MaxSmall}

\* The i-th key of a large mapping, len characters long: the index leads
\* ("k7xxx...") or, with tail, ends the key ("kkk...7"), so that keys longer
\* than the limit share their first characters.
LargeKey(i, len, tail) ==
  IF tail THEN Repeat("k", len - Len(NatToString(i))) \o NatToString(i)
  ELSE <<"k">> \o NatToString(i) \o Repeat("x", len - 1 - Len(NatToString(i)))

\* The i-th value of a large mapping of n entries: every tenth value, the
\* first and the last are len characters long; with gaps, every seventh
\* entry is undefined or null.
LargeValue(i, n, len, gaps) ==
  IF gaps /\ i % 14 = 0 THEN Undefined
  ELSE IF gaps /\ i % 7 = 0 THEN Null
  ELSE IF i \in {1, n} \/ i % 10 = 0
  THEN Str(<<"v">> \o NatToString(i) \o Repeat("y", len - 1 - Len(NatToString(i))))
  ELSE Str(<<"v">> \o NatToString(i))

LargeSizes == {MaxKeys - 1, MaxKeys, MaxKeys + 1, MaxEntries}
KeyLengths == {4, MaxKeyLength, MaxKeyLength + 1, LongKey}
ValueLengths == {4, MaxValueLength, MaxValueLength + 1, LongValue}

LargeMetadata ==
  {[i \in 1..n |-> <<LargeKey(i, kl, tail), LargeValue(i, n, vl, gaps)>>] :
     <<n, kl, vl, tail, gaps>> \in
        LargeSizes \X KeyLengths \X ValueLengths \X BOOLEAN \X BOOLEAN}

\* Keys the object model treats apart: the accessor name __proto__, the
\* largest array index and the numeral after it, which is an ordinary key.
OddKeys ==
  {ProtoKey, MaxArrayIndex,
   <<"4", "2", "9", "4", "9", "6", "7", "2", "9", "5">>, <<"a">>}

\* every mapping with one or two own properties under those keys, as
\* JSON.parse or Object.fromEntries builds it
OddMetadata ==
  UNION {{FromEntries(es) :
            es \in {q \in [1..n -> OddKeys \X {Str(<<"1">>), Null, Num(5)}] :
                      \A i, j \in 1..n : i # j => q[i][1] # q[j][1]}} :
         n \in 1..2}

\* mappings with a value that is an object or a sequence, as JSON.parse
\* builds them: with an own property toString in it String() throws
ObjectValuedMetadata ==
  {FromEntries(<< <<<<"a">>, v>>, <<<<"b">>, Str(<<"1">>)>> >>) :
     v \in {Obj(<< <<<<"t", "o", "S", "t", "r", "i", "n", "g">>, Num(1)>> >>),
            Arr(<<Obj(<< <<<<"t", "o", "S", "t", "r", "i", "n", "g">>,
                           Str(<<"x">>)>> >>)>>)}}
    \cup {FromEntries(<< <<<<"a">>, v>> >>) :
            v \in {Obj(<< <<<<"b">>, Num(1)>> >>), Arr(<<Num(1), Null, Num(2)>>)}}

MetadataInputs ==
  SmallMetadata \cup LargeMetadata \cup OddMetadata \cup ObjectValuedMetadata

(***************************************************************************)
(* State machine of the metadata sanitizer: a caller sanitizes a mapping,  *)
(* then sanitizes the result again.                                        *)
(***************************************************************************)
KeyIdle ==
  /\ kpc = "idle"
  /\ operation = <<>>
  /\ params1 = Undefined
  /\ params2 = Undefined
  /\ key1 = <<>>
  /\ key2 = <<>>

WrapIdle ==
  /\ calls = <<>>
  /\ requests = <<>>

UtilIdle == util = [fn |-> "none"]
CacheIdle ==
  /\ cachedStripeClient = Null
  /\ cachedSecretArn = Null
  /\ pending = {}
  /\ events = <<>>
  /\ settled = [k |-> "none"]
  /\ secretsManager = <<>>
  /\ callsLeft = 0

InitMeta ==
  /\ KeyIdle
  /\ WrapIdle
  /\ UtilIdle
  /\ CacheIdle
  /\ mpc = "input"
  /\ metadata \in MetadataInputs
  /\ sanitized = <<>>
  /\ resanitized = <<>>

\* a call that throws leaves the caller without a mapping
Sanitize ==
  /\ mpc = "input"
  /\ sanitized' = createMetadata(metadata)
  /\ mpc' = IF StringifyThrows(metadata) THEN "threw" ELSE "once"
  /\ UNCHANGED <<metadata, resanitized, keyVars, wrapVars, utilVars, cacheVars>>

Resanitize ==
  /\ mpc = "once"
  /\ resanitized' = createMetadata(sanitized)
  /\ mpc' = "twice"
  /\ UNCHANGED <<metadata, sanitized, keyVars, wrapVars, utilVars, cacheVars>>

NextMeta == Sanitize \/ Resanitize

SpecMeta == InitMeta /\ [][NextMeta]_vars

(***************************************************************************)
(* Inputs of generateIdempotencyKey                                        *)
(***************************************************************************)
MaxItems == 2           \* elements of a sequence of leaves
LongestOperation == 223 \* length of the longest operation tag

Leaves == {Undefined, Null, NaN, Num(1000), Num(1001), Str(<<"t", "1">>)}
ItemLeaves == {Undefined, Null, Num(1000), Num(1001)}
Amounts == {Num(1000), Num(1001)}

\* every sequence of at most n elements of S
SeqsUpTo(S, n) == UNION {[1..k -> S] : k \in 0..n}

\* every object built by one or two assignments to distinct keys of K
Built(K, V) ==
  {FromEntries(es) :
     es \in {q \in SeqsUpTo(K \X V, 2) :
               \A i, j \in 1..Len(q) : i # j => q[i][1] # q[j][1]}}

LeafArrays == {Arr(items) : items \in SeqsUpTo(ItemLeaves, MaxItems)}

FlatObjects == {Obj(props) : props \in Built({<<"a">>, <<"b">>}, ItemLeaves)}

\* objects with array-index keys, which enumerate before the other keys
IndexObjects ==
  {Obj(props) : props \in Built({<<"1", "0">>, <<"9">>, <<"b">>}, {Num(1000)})}

\* nested mappings, such as metadata, of exactly two properties
InnerObjects ==
  {Obj(props) : props \in {q \in Built({<<"a">>, <<"b">>}, Amounts) : Len(q) = 2}}

\* {m: inner, c: 1000} and {c: 1000, m: inner}
NestedObjects ==
  {Obj(FromEntries(es)) :
     es \in UNION {{<< <<<<"m">>, inner>>, <<<<"c">>, Num(1000)>> >>,
                    << <<<<"c">>, Num(1000)>>, <<<<"m">>, inner>> >>} :
                   inner \in InnerObjects}}

\* sequences of one or two mappings
ItemObjects ==
  {Obj(<< <<<<"a">>, Num(1000)>>, <<<<"b">>, Num(1001)>> >>),
   Obj(<< <<<<"b">>, Num(1001)>>, <<<<"a">>, Num(1000)>> >>),
   Obj(<< <<<<"a">>, Num(1001)>>, <<<<"b">>, Num(1000)>> >>),
   Obj(<< <<<<"a">>, Undefined>> >>),
   Obj(<<>>)}

ObjectArrays == {Arr(items) : items \in SeqsUpTo(ItemObjects, 2) \ {<<>>}}

\* {i: [...]}: a sequence inside a mapping
ArrayHolders ==
  {Obj(<< <<<<"i">>, Arr(items)>> >>) : items \in SeqsUpTo(Amounts, MaxItems)}

\* objects with an own property named __proto__, as JSON.parse builds them,
\* and sequences of such objects
ProtoObjects ==
  {Obj(FromEntries(<< <<ProtoKey, Obj(<< <<<<"a">>, Num(1000)>> >>)>>,
                      <<<<"b">>, Num(1000)>> >>)),
   Obj(FromEntries(<< <<ProtoKey, Obj(<< <<<<"a">>, Num(1001)>> >>)>>,
                      <<<<"b">>, Num(1000)>> >>)),
   Obj(FromEntries(<< <<<<"b">>, Num(1000)>>,
                      <<ProtoKey, Obj(<< <<<<"a">>, Num(1000)>> >>)>> >>)),
   Obj(FromEntries(<< <<ProtoKey, Num(1000)>> >>)),
   Arr(<<Obj(FromEntries(<< <<ProtoKey, Num(1000)>> >>)),
         Obj(FromEntries(<< <<ProtoKey, Num(1001)>> >>))>>),
   Arr(<<Obj(FromEntries(<< <<ProtoKey, Num(1001)>> >>)),
         Obj(FromEntries(<< <<ProtoKey, Num(1000)>> >>))>>)}

\* objects whose keys are the largest array index and the numeral after
\* it, a smaller index or a named key, in both orders of insertion
LargeIndexObjects ==
  {Obj(FromEntries(<< <<k[1], Num(1000)>>, <<k[2], Num(1000)>> >>)) :
     k \in {q \in {MaxArrayIndex,
                    <<"4", "2", "9", "4", "9", "6", "7", "2", "9", "5">>,
                    <<"9">>, <<"0", "a">>}
                   \X {MaxArrayIndex,
                       <<"4", "2", "9", "4", "9", "6", "7", "2", "9", "5">>,
                       <<"9">>, <<"0", "a">>} :
              q[1] # q[2] /\ MaxArrayIndex \in {q[1], q[2]}}}

ParamsInputs ==
  Leaves \cup LeafArrays \cup FlatObjects \cup IndexObjects
    \cup NestedObjects \cup ObjectArrays \cup ArrayHolders
    \cup ProtoObjects \cup LargeIndexObjects

Operations ==
  { <<"c", "o", "u", "p", "o", "n">>,
    Repeat("o", 255 - HashChars - 1),
    Repeat("o", LongestOperation) }

(***************************************************************************)
(* State machine of the key deriver: two call sites assemble params for    *)
(* the same operation, and each derives its key.                           *)
(***************************************************************************)
MetaIdle ==
  /\ mpc = "idle"
  /\ metadata = <<>>
  /\ sanitized = <<>>
  /\ resanitized = <<>>

InitKey ==
  /\ MetaIdle
  /\ WrapIdle
  /\ UtilIdle
  /\ CacheIdle
  /\ kpc = "input"
  /\ operation \in Operations
  /\ params1 \in ParamsInputs
  /\ params2 \in ParamsInputs
  /\ key1 = <<>>
  /\ key2 = <<>>

Derive ==
  /\ kpc = "input"
  /\ key1' = generateIdempotencyKey(operation, params1)
  /\ key2' = generateIdempotencyKey(operation, params2)
  /\ kpc' = "done"
  /\ UNCHANGED <<operation, params1, params2, metaVars, wrapVars, utilVars,
                 cacheVars>>

NextKey == Derive

SpecKey == InitKey /\ [][NextKey]_vars

(***************************************************************************)
(* Language operations the wrappers use                                    *)
(***************************************************************************)
\* ToBoolean(v): the truth value that !v, v && x and v || x test
Truthy(v) ==
  CASE v.t \in {"undefined", "null"} -> FALSE
    [] v.t = "boolean" -> v.b
    [] v.t = "number" -> IF "n" \in DOMAIN v THEN v.n # 0
                         ELSE v.special \notin {"NaN", "-0"}
    [] v.t = "string" -> v.s # <<>>
    [] OTHER -> TRUE

\* a || b
LogicalOr(a, b) == IF Truthy(a) THEN a ELSE b

\* a parameter declared with a default value: p = d
ArgOrDefault(arg, d) == IF arg = Undefined THEN d ELSE arg

\* const { k } = params
PropOf(obj, k) == IF HasOwn(obj.props, k) THEN ObjGet(obj.props, k) ELSE
    Undefined

\* const { k = d } = params
PropOrDefault(obj, k, d) == IF PropOf(obj, k) = Undefined THEN d ELSE
    PropOf(obj, k)

\* v ?? d
Nullish(v, d) == IF v.t \in {"undefined", "null"} THEN d ELSE v

\* a spread that always adds the entries
SpreadAlways(v, entries) == entries

\* ...(v && { entries })
SpreadIf(v, entries) == IF Truthy(v) THEN entries ELSE <<>>

\* s.toLowerCase() on printable ASCII
ToLowerCase(s) ==
  [i \in 1..Len(s) |->
     IF CodeUnit[s[i]] >= CodeUnit["A"] /\ CodeUnit[s[i]] <= CodeUnit["Z"]
     THEN PrintableHigh[CodeUnit[s[i]] - CodeUnit["A"] + 1]
     ELSE s[i]]

\* s.startsWith(prefix)
StartsWith(s, prefix) ==
  Len(s) >= Len(prefix) /\ SubSeq(s, 1, Len(prefix)) = prefix

\* v <= 0 for a number v
AtMostZero(v) ==
  IF "n" \in DOMAIN v THEN v.n <= 0 ELSE v.special \in {"-0", "-Infinity"}

\* a negation that leaves the number as it is
NegateNot(v) == v

\* -v for a number v
Negate(v) ==
  IF "n" \in DOMAIN v THEN (IF v.n = 0 THEN NegZero ELSE Num(-v.n))
  ELSE IF v.special = "-0" THEN Num(0)
  ELSE IF v.special = "Infinity" THEN NegInfinity
  ELSE IF v.special = "-Infinity" THEN PosInfinity
  ELSE v

\* Math.abs(v) for a number v
MathAbs(v) ==
  IF "n" \in DOMAIN v THEN (IF v.n < 0 THEN Num(-v.n) ELSE v)
  ELSE IF v.special = "-0" THEN Num(0)
  ELSE IF v.special = "-Infinity" THEN PosInfinity
  ELSE v

\* new Error(message): an error with a message and no other field
NewError(message) == [t |-> "error", class |-> "Error", message |-> message]

\* the outcome of a wrapper invocation and the provider requests it sent
Returned(sent, value) == [sent |-> sent, outcome |-> [t |-> "returned", value
    |-> value]]
Threw(sent, error) == [sent |-> sent, outcome |-> [t |-> "threw", error |->
    error]]

\* the request is sent and the wrapper waits at its await for the provider
\* to answer
Awaiting(sent) == [sent |-> sent, outcome |-> [t |-> "awaiting"]]

\* the response of a request the provider has not answered yet
Unanswered == [t |-> "unanswered"]

\* a catch block that throws every error again as it is
RethrowUnwrapped(sent, error) == Threw(sent, error)

\* a catch block that sends the request once more before it throws
RethrowAfterRetry(sent, error) ==
  IF error.class = "StripeError"
  THEN Threw(sent \o sent,
             NewError(<<"S", "t", "r", "i", "p", "e", " ", "e", "r", "r", "o",
                        "r", ":", " ">> \o error.message \o <<" ", "(">>
                      \o error.type \o <<")">>))
  ELSE Threw(sent \o sent, error)

\* catch (error): a provider error is replaced by a new Error, any other
\* error is thrown again
Rethrow(sent, error) ==
  IF error.class = "StripeError"
  THEN Threw(sent, NewError(<<"S", "t", "r", "i", "p", "e", " ", "e", "r",
      "r", "o", "r", ":", " ">> \o error.message \o <<" ", "(">>
                              \o error.type \o <<")">>))
  ELSE Threw(sent, error)

(***************************************************************************)
(* The provider, as the wrappers see it: a request either yields the       *)
(* resource asked for or raises the error the response names.              *)
(***************************************************************************)
StripeIdempotencyError ==
  [t |-> "error", class |-> "StripeError",
   message |-> <<"K", "e", "y", " ", "i", "n", " ", "u", "s", "e">>,
   type |-> <<"i", "d", "e", "m", "p", "o", "t", "e", "n", "c", "y",
            "_", "e", "r", "r", "o", "r">>,
   code |-> <<"i", "d", "e", "m", "p", "o", "t", "e", "n", "c", "y", "_", "k",
              "e", "y", "_", "i", "n", "_", "u", "s", "e">>,
   headers |-> Obj(<< <<<<"i", "d", "e", "m", "p", "o", "t", "e", "n", "c",
                         "y", "-", "k", "e", "y">>, Str(<<"k", "1">>)>> >>)]

ConnectionError ==
  [t |-> "error", class |-> "Error", message |-> <<"s", "o", "c", "k", "e",
      "t", " ", "h", "a", "n", "g", " ", "u", "p">>]

\* the errors a request may fail with
ProviderErrors == {StripeIdempotencyError, ConnectionError}

ProviderResponses == {[t |-> "ok"]} \cup ProviderErrors

\* the customers stripe.customers.retrieve may resolve to: one with a
\* balance and a currency, one that never had a balance transaction, one
\* that has been deleted
Customers(customerId) ==
  {Obj(FromEntries(<< <<<<"i", "d">>, customerId>>, <<<<"b", "a", "l", "a",
      "n", "c", "e">>, Num(-500)>>,
                      <<<<"c", "u", "r", "r", "e", "n", "c", "y">>,
                          Str(<<"e", "u", "r">>)>> >>)),
   Obj(FromEntries(<< <<<<"i", "d">>, customerId>>, <<<<"b", "a", "l", "a",
       "n", "c", "e">>, Num(0)>>,
                      <<<<"c", "u", "r", "r", "e", "n", "c", "y">>, Null>>
                          >>)),
   Obj(FromEntries(<< <<<<"i", "d">>, customerId>>,
                      <<<<"d", "e", "l", "e", "t", "e", "d">>, Bool(TRUE)>>
                          >>))}

\* the answers to stripe.customers.retrieve
CustomerResponses(customerId) ==
  {[t |-> "ok", customer |-> customer] : customer \in Customers(customerId)}
  \cup ProviderErrors

PropOrNull(obj, k) == Nullish(PropOf(obj, k), Null)

\* the coupon that stripe.coupons.create resolves to
CouponResource(body) ==
  Obj(FromEntries(<<
    <<<<"i", "d">>, Nullish(PropOf(body, <<"i", "d">>), Str(<<"c", "o", "_",
        "1">>))>>,
    <<<<"p", "e", "r", "c", "e", "n", "t", "_", "o", "f",
        "f">>, PropOrNull(body, <<"p", "e", "r", "c", "e", "n", "t", "_",
        "o", "f", "f">>)>>,
    <<<<"a", "m", "o", "u", "n", "t", "_", "o", "f",
        "f">>, PropOrNull(body, <<"a", "m", "o", "u", "n", "t", "_", "o",
        "f", "f">>)>>,
    <<<<"c", "u", "r", "r", "e", "n", "c", "y">>, PropOrNull(body, <<"c",
        "u", "r", "r", "e", "n", "c", "y">>)>>,
    <<<<"d", "u", "r", "a", "t", "i", "o", "n">>, PropOf(body, <<"d", "u",
        "r", "a", "t", "i", "o", "n">>)>>,
    <<<<"n", "a", "m", "e">>, PropOrNull(body, <<"n", "a", "m", "e">>)>>,
    <<<<"v", "a", "l", "i", "d">>, Bool(TRUE)>>,
    <<<<"m", "e", "t", "a", "d", "a", "t",
        "a">>, Nullish(PropOf(body, <<"m", "e", "t", "a", "d", "a", "t",
        "a">>), Obj(<<>>))>> >>))

\* the promotion code that stripe.promotionCodes.create resolves to
PromotionCodeResource(body) ==
  Obj(FromEntries(<<
    <<<<"i", "d">>, Str(<<"p", "r", "o", "m", "o", "_", "1">>)>>,
    <<<<"c", "o", "d", "e">>, Nullish(PropOf(body, <<"c", "o", "d",
        "e">>), Str(<<"A", "U", "T", "O", "1">>))>>,
    <<<<"c", "o", "u", "p", "o", "n">>, Obj(<< <<<<"i",
        "d">>, PropOf(body, <<"c", "o", "u", "p", "o", "n">>)>> >>)>>,
    <<<<"a", "c", "t", "i", "v", "e">>, PropOf(body, <<"a", "c", "t", "i",
        "v", "e">>)>>,
    <<<<"m", "a", "x", "_", "r", "e", "d", "e", "m", "p", "t", "i", "o",
        "n", "s">>, PropOrNull(body, <<"m", "a", "x", "_", "r", "e", "d",
        "e", "m", "p", "t", "i", "o", "n", "s">>)>>,
    <<<<"e", "x", "p", "i", "r", "e", "s", "_", "a",
        "t">>, PropOrNull(body, <<"e", "x", "p", "i", "r", "e", "s", "_",
        "a", "t">>)>>,
    <<<<"t", "i", "m", "e", "s", "_", "r", "e", "d", "e", "e", "m", "e",
        "d">>, Num(0)>>,
    <<<<"m", "e", "t", "a", "d", "a", "t",
        "a">>, Nullish(PropOf(body, <<"m", "e", "t", "a", "d", "a", "t",
        "a">>), Obj(<<>>))>> >>))

\* the balance transaction that stripe.customers.createBalanceTransaction
\* resolves to, for a customer whose balance was zero
BalanceTransactionResource(customerId, body) ==
  Obj(FromEntries(<<
    <<<<"i", "d">>, Str(<<"c", "b", "t", "x", "n", "_", "1">>)>>,
    <<<<"c", "u", "s", "t", "o", "m", "e", "r">>, customerId>>,
    <<<<"a", "m", "o", "u", "n", "t">>, PropOf(body, <<"a", "m", "o", "u",
        "n", "t">>)>>,
    <<<<"c", "u", "r", "r", "e", "n", "c", "y">>, PropOf(body, <<"c", "u",
        "r", "r", "e", "n", "c", "y">>)>>,
    <<<<"e", "n", "d", "i", "n", "g", "_", "b", "a", "l", "a", "n", "c",
        "e">>, PropOf(body, <<"a", "m", "o", "u", "n", "t">>)>>,
    <<<<"d", "e", "s", "c", "r", "i", "p", "t", "i", "o",
        "n">>, PropOrNull(body, <<"d", "e", "s", "c", "r", "i", "p", "t",
        "i", "o", "n">>)>>,
    <<<<"m", "e", "t", "a", "d", "a", "t",
        "a">>, Nullish(PropOf(body, <<"m", "e", "t", "a", "d", "a", "t",
        "a">>), Obj(<<>>))>> >>))

\* a provider request sent with a key of the client's own making
RequestWithOtherKey(api, args, key) ==
  [api |-> api, args |-> args,
   options |-> Obj(<< <<<<"i", "d", "e", "m", "p", "o", "t", "e", "n", "c",
       "y", "K", "e", "y">>, Str(<<"a", "u", "t", "o">>)>> >>)]

\* a provider request: the API called, its arguments and its request options
Request(api, args, key) ==
  [api |-> api, args |-> args,
   options |-> Obj(<< <<<<"i", "d", "e", "m", "p", "o", "t", "e", "n", "c",
       "y", "K", "e", "y">>, key>> >>)]

(***************************************************************************)
(* coupons/createCoupon                                                    *)
(***************************************************************************)
createCoupon(params, response) ==
  LET id == PropOf(params, <<"i", "d">>)
      percentOff == PropOf(params, <<"p", "e", "r", "c", "e", "n", "t", "O",
          "f", "f">>)
      amountOff == PropOf(params, <<"a", "m", "o", "u", "n", "t", "O", "f",
          "f">>)
      currency == PropOrDefault(params, <<"c", "u", "r", "r", "e", "n", "c",
          "y">>, Str(<<"u", "s", "d">>))
      duration == PropOrDefault(params, <<"d", "u", "r", "a", "t", "i", "o",
          "n">>, Str(<<"o", "n", "c", "e">>))
      durationInMonths == PropOf(params, <<"d", "u", "r", "a", "t", "i",
          "o", "n", "I", "n", "M", "o", "n", "t", "h", "s">>)
      maxRedemptions == PropOf(params, <<"m", "a", "x", "R", "e", "d", "e",
          "m", "p", "t", "i", "o", "n", "s">>)
      redeemBy == PropOf(params, <<"r", "e", "d", "e", "e", "m", "B", "y">>)
      name == PropOf(params, <<"n", "a", "m", "e">>)
      metadata_ == PropOf(params, <<"m", "e", "t", "a", "d", "a", "t", "a">>)
      idempotencyKey == PropOf(params, <<"i", "d", "e", "m", "p", "o", "t",
          "e", "n", "c", "y", "K", "e", "y">>)
  IN IF ~Truthy(percentOff) /\ ~Truthy(amountOff)
     THEN Threw(<<>>, NewError(<<"M", "u", "s", "t", " ", "p", "r", "o",
         "v", "i", "d", "e", " ", "e", "i", "t", "h", "e", "r", " ", "p",
         "e", "r", "c", "e", "n", "t", "O", "f", "f", " ", "o", "r", " ",
         "a", "m", "o", "u", "n", "t", "O", "f", "f">>))
     ELSE IF Truthy(percentOff) /\ Truthy(amountOff)
     THEN Threw(<<>>, NewError(<<"C", "a", "n", "n", "o", "t", " ", "p",
         "r", "o", "v", "i", "d", "e", " ", "b", "o", "t", "h", " ", "p",
         "e", "r", "c", "e", "n", "t", "O", "f", "f", " ", "a", "n", "d",
         " ", "a", "m", "o", "u", "n", "t", "O", "f", "f">>))
     ELSE IF Truthy(amountOff) /\ ~Truthy(currency)
     THEN Threw(<<>>, NewError(<<"c", "u", "r", "r", "e", "n", "c", "y",
         " ", "i", "s", " ", "r", "e", "q", "u", "i", "r", "e", "d", " ",
         "w", "h", "e", "n", " ", "u", "s", "i", "n", "g", " ", "a", "m",
         "o", "u", "n", "t", "O", "f", "f">>))
     ELSE IF duration = Str(<<"r", "e", "p", "e", "a", "t", "i", "n",
         "g">>) /\ ~Truthy(durationInMonths)
     THEN Threw(<<>>, NewError(<<"d", "u", "r", "a", "t", "i", "o", "n",
         "I", "n", "M", "o", "n", "t", "h", "s", " ", "i", "s", " ", "r",
         "e", "q", "u", "i", "r", "e", "d", " ", "f", "o", "r", " ", "r",
         "e", "p", "e", "a", "t", "i", "n", "g", " ", "c", "o", "u", "p",
         "o", "n", "s">>))
     ELSE
       LET couponParams ==
             Obj(FromEntries(
               SpreadIf(id, << <<<<"i", "d">>, id>> >>)
               \o SpreadIf(percentOff, << <<<<"p", "e", "r", "c", "e", "n",
                   "t", "_", "o", "f", "f">>, percentOff>> >>)
               \o SpreadIf(amountOff, << <<<<"a", "m", "o", "u", "n", "t",
                   "_", "o", "f", "f">>, amountOff>> >>)
               \o (IF Truthy(amountOff)
                   THEN << <<<<"c", "u", "r", "r", "e", "n", "c",
                       "y">>, Str(ToLowerCase(currency.s))>> >>
                   ELSE <<>>)
               \o << <<<<"d", "u", "r", "a", "t", "i", "o",
                   "n">>, duration>> >>
               \o SpreadIf(durationInMonths,
                           << <<<<"d", "u", "r", "a", "t", "i", "o", "n",
                               "_", "i", "n", "_", "m", "o", "n", "t", "h",
                               "s">>, durationInMonths>> >>)
               \o SpreadIf(maxRedemptions,
                           << <<<<"m", "a", "x", "_", "r", "e", "d", "e",
                               "m", "p", "t", "i", "o", "n",
                               "s">>, maxRedemptions>> >>)
               \o SpreadIf(redeemBy, << <<<<"r", "e", "d", "e", "e", "m",
                   "_", "b", "y">>, redeemBy>> >>)
               \o SpreadIf(name, << <<<<"n", "a", "m", "e">>, name>> >>)
               \o SpreadIf(metadata_, << <<<<"m", "e", "t", "a", "d", "a",
                   "t", "a">>, metadata_>> >>)))
           key == IF Truthy(idempotencyKey) THEN idempotencyKey
                  ELSE Str(generateIdempotencyKey(<<"c", "o", "u", "p", "o",
                      "n">>, params))
           sent == <<Request("coupons.create", <<couponParams>>, key)>>
           coupon == CouponResource(couponParams)
       IN IF response = Unanswered THEN Awaiting(sent)
          ELSE IF response.t = "ok"
          THEN Returned(sent, Obj(FromEntries(<<
                 <<<<"c", "o", "u", "p", "o", "n", "I",
                     "d">>, PropOf(coupon, <<"i", "d">>)>>,
                 <<<<"p", "e", "r", "c", "e", "n", "t", "O", "f",
                     "f">>, Nullish(PropOf(coupon, <<"p", "e", "r", "c",
                     "e", "n", "t", "_", "o", "f", "f">>), Undefined)>>,
                 <<<<"a", "m", "o", "u", "n", "t", "O", "f",
                     "f">>, Nullish(PropOf(coupon, <<"a", "m", "o", "u",
                     "n", "t", "_", "o", "f", "f">>), Undefined)>>,
                 <<<<"c", "u", "r", "r", "e", "n", "c",
                     "y">>, Nullish(PropOf(coupon, <<"c", "u", "r", "r",
                     "e", "n", "c", "y">>), Undefined)>>,
                 <<<<"d", "u", "r", "a", "t", "i", "o",
                     "n">>, PropOf(coupon, <<"d", "u", "r", "a", "t", "i",
                     "o", "n">>)>>,
                 <<<<"n", "a", "m", "e">>, Nullish(PropOf(coupon, <<"n",
                     "a", "m", "e">>), Undefined)>>,
                 <<<<"v", "a", "l", "i", "d">>, PropOf(coupon, <<"v", "a",
                     "l", "i", "d">>)>>,
                 <<<<"m", "e", "t", "a", "d", "a", "t",
                     "a">>, Nullish(PropOf(coupon, <<"m", "e", "t", "a",
                     "d", "a", "t", "a">>), Undefined)>> >>)))
          ELSE Rethrow(sent, response)

(***************************************************************************)
(* coupons/createPromotionCode                                             *)
(***************************************************************************)
createPromotionCode(params, response) ==
  LET couponId == PropOf(params, <<"c", "o", "u", "p", "o", "n", "I", "d">>)
      code == PropOf(params, <<"c", "o", "d", "e">>)
      maxRedemptions == PropOf(params, <<"m", "a", "x", "R", "e", "d", "e",
          "m", "p", "t", "i", "o", "n", "s">>)
      expiresAt == PropOf(params, <<"e", "x", "p", "i", "r", "e", "s", "A",
          "t">>)
      active == PropOrDefault(params, <<"a", "c", "t", "i", "v",
          "e">>, Bool(TRUE))
      metadata_ == PropOf(params, <<"m", "e", "t", "a", "d", "a", "t", "a">>)
      restrictions == PropOf(params, <<"r", "e", "s", "t", "r", "i", "c",
          "t", "i", "o", "n", "s">>)
      idempotencyKey == PropOf(params, <<"i", "d", "e", "m", "p", "o", "t",
          "e", "n", "c", "y", "K", "e", "y">>)
      promoParams ==
        Obj(FromEntries(
          << <<<<"c", "o", "u", "p", "o", "n">>, couponId>> >>
          \o SpreadIf(code, << <<<<"c", "o", "d", "e">>, code>> >>)
          \o SpreadIf(maxRedemptions, << <<<<"m", "a", "x", "_", "r", "e",
              "d", "e", "m", "p", "t", "i", "o", "n",
              "s">>, maxRedemptions>> >>)
          \o SpreadIf(expiresAt, << <<<<"e", "x", "p", "i", "r", "e", "s",
              "_", "a", "t">>, expiresAt>> >>)
          \o << <<<<"a", "c", "t", "i", "v", "e">>, active>> >>
          \o SpreadIf(metadata_, << <<<<"m", "e", "t", "a", "d", "a", "t",
              "a">>, metadata_>> >>)
          \o (IF Truthy(restrictions)
              THEN << <<<<"r", "e", "s", "t", "r", "i", "c", "t", "i", "o",
                  "n", "s">>,
                        Obj(FromEntries(
                          (IF PropOf(restrictions, <<"f", "i", "r", "s",
                              "t", "T", "i", "m", "e", "T", "r", "a", "n",
                              "s", "a", "c", "t", "i", "o", "n">>) # Undefined
                           THEN << <<<<"f", "i", "r", "s", "t", "_", "t",
                               "i", "m", "e", "_", "t", "r", "a", "n", "s",
                               "a", "c", "t", "i", "o", "n">>,
                                     PropOf(restrictions, <<"f", "i", "r",
                                         "s", "t", "T", "i", "m", "e", "T",
                                         "r", "a", "n", "s", "a", "c", "t",
                                         "i", "o", "n">>)>> >>
                           ELSE <<>>)
                          \o SpreadIf(PropOf(restrictions, <<"m", "i", "n",
                              "i", "m", "u", "m", "A", "m", "o", "u", "n",
                              "t">>),
                               << <<<<"m", "i", "n", "i", "m", "u", "m",
                                   "_", "a", "m", "o", "u", "n", "t">>,
                                    PropOf(restrictions, <<"m", "i", "n",
                                        "i", "m", "u", "m", "A", "m", "o",
                                        "u", "n", "t">>)>>,
                                  <<<<"m", "i", "n", "i", "m", "u", "m",
                                      "_", "a", "m", "o", "u", "n", "t",
                                      "_", "c", "u", "r", "r", "e", "n",
                                      "c", "y">>,
                                    IF Truthy(PropOf(restrictions, <<"m",
                                        "i", "n", "i", "m", "u", "m", "A",
                                        "m", "o", "u", "n", "t", "C", "u",
                                        "r", "r", "e", "n", "c", "y">>))
                                    THEN PropOf(restrictions, <<"m", "i",
                                        "n", "i", "m", "u", "m", "A", "m",
                                        "o", "u", "n", "t", "C", "u", "r",
                                        "r", "e", "n", "c", "y">>)
                                    ELSE Str(<<"u", "s", "d">>)>> >>)))>> >>
              ELSE <<>>)))
      key == IF Truthy(idempotencyKey) THEN idempotencyKey
             ELSE Str(generateIdempotencyKey(<<"p", "r", "o", "m",
                 "o">>, params))
      sent == <<Request("promotionCodes.create", <<promoParams>>, key)>>
      promotionCode == PromotionCodeResource(promoParams)
  IN IF response = Unanswered THEN Awaiting(sent)
     ELSE IF response.t = "ok"
     THEN Returned(sent, Obj(FromEntries(<<
            <<<<"p", "r", "o", "m", "o", "t", "i", "o", "n", "C", "o", "d",
                "e", "I", "d">>, PropOf(promotionCode, <<"i", "d">>)>>,
            <<<<"c", "o", "d", "e">>, PropOf(promotionCode, <<"c", "o", "d",
                "e">>)>>,
            <<<<"c", "o", "u", "p", "o", "n", "I",
                "d">>, PropOf(PropOf(promotionCode, <<"c", "o", "u", "p",
                "o", "n">>), <<"i", "d">>)>>,
            <<<<"a", "c", "t", "i", "v", "e">>, PropOf(promotionCode, <<"a",
                "c", "t", "i", "v", "e">>)>>,
            <<<<"m", "a", "x", "R", "e", "d", "e", "m", "p", "t", "i", "o",
                "n", "s">>, Nullish(PropOf(promotionCode, <<"m", "a", "x",
                "_", "r", "e", "d", "e", "m", "p", "t", "i", "o", "n",
                "s">>), Undefined)>>,
            <<<<"e", "x", "p", "i", "r", "e", "s", "A",
                "t">>, Nullish(PropOf(promotionCode, <<"e", "x", "p", "i",
                "r", "e", "s", "_", "a", "t">>), Undefined)>>,
            <<<<"t", "i", "m", "e", "s", "R", "e", "d", "e", "e", "m", "e",
                "d">>, PropOf(promotionCode, <<"t", "i", "m", "e", "s", "_",
                "r", "e", "d", "e", "e", "m", "e", "d">>)>>,
            <<<<"m", "e", "t", "a", "d", "a", "t",
                "a">>, Nullish(PropOf(promotionCode, <<"m", "e", "t", "a",
                "d", "a", "t", "a">>), Undefined)>> >>)))
     ELSE Rethrow(sent, response)

(***************************************************************************)
(* balance/customerBalance                                                 *)
(***************************************************************************)
creditCustomerBalance(params, response) ==
  LET customerId == PropOf(params, <<"c", "u", "s", "t", "o", "m", "e", "r",
      "I", "d">>)
      amount == PropOf(params, <<"a", "m", "o", "u", "n", "t">>)
      currency == PropOrDefault(params, <<"c", "u", "r", "r", "e", "n", "c",
          "y">>, Str(<<"u", "s", "d">>))
      description == PropOrDefault(params, <<"d", "e", "s", "c", "r", "i",
          "p", "t", "i", "o", "n">>, Str(<<"A", "c", "c", "o", "u", "n",
          "t", " ", "c", "r", "e", "d", "i", "t">>))
      metadata_ == PropOf(params, <<"m", "e", "t", "a", "d", "a", "t", "a">>)
      idempotencyKey == PropOf(params, <<"i", "d", "e", "m", "p", "o", "t",
          "e", "n", "c", "y", "K", "e", "y">>)
  IN IF AtMostZero(amount)
     THEN Threw(<<>>, NewError(<<"A", "m", "o", "u", "n", "t", " ", "m",
         "u", "s", "t", " ", "b", "e", " ", "g", "r", "e", "a", "t", "e",
         "r", " ", "t", "h", "a", "n", " ", "0">>))
     ELSE IF ~Truthy(customerId) \/ ~StartsWith(customerId.s, <<"c", "u",
         "s", "_">>)
     THEN Threw(<<>>, NewError(<<"I", "n", "v", "a", "l", "i", "d", " ",
         "c", "u", "s", "t", "o", "m", "e", "r", " ", "I", "D", " ", "f",
         "o", "r", "m", "a", "t", " ", "(", "m", "u", "s", "t", " ", "s",
         "t", "a", "r", "t", " ", "w", "i", "t", "h", " ", "c", "u", "s",
         "_", ")">>))
     ELSE
       LET key == IF Truthy(idempotencyKey) THEN idempotencyKey
                  ELSE Str(generateIdempotencyKey(<<"b", "a", "l", "a", "n",
                      "c", "e", "-", "c", "r", "e", "d", "i", "t">>, params))
           body == Obj(FromEntries(
                     << <<<<"a", "m", "o", "u", "n", "t">>, Negate(amount)>>,
                        <<<<"c", "u", "r", "r", "e", "n", "c",
                            "y">>, Str(ToLowerCase(currency.s))>>,
                        <<<<"d", "e", "s", "c", "r", "i", "p", "t", "i",
                            "o", "n">>, description>> >>
                     \o SpreadIf(metadata_, << <<<<"m", "e", "t", "a", "d",
                         "a", "t", "a">>, metadata_>> >>)))
           sent == <<Request("customers.createBalanceTransaction",
                             <<customerId, body>>, key)>>
           transaction == BalanceTransactionResource(customerId, body)
       IN IF response = Unanswered THEN Awaiting(sent)
          ELSE IF response.t = "ok"
          THEN Returned(sent, Obj(FromEntries(<<
                 <<<<"t", "r", "a", "n", "s", "a", "c", "t", "i", "o", "n",
                     "I", "d">>, PropOf(transaction, <<"i", "d">>)>>,
                 <<<<"c", "u", "s", "t", "o", "m", "e", "r", "I",
                     "d">>, PropOf(transaction, <<"c", "u", "s", "t", "o",
                     "m", "e", "r">>)>>,
                 <<<<"a", "m", "o", "u", "n",
                     "t">>, MathAbs(PropOf(transaction, <<"a", "m", "o",
                     "u", "n", "t">>))>>,
                 <<<<"c", "u", "r", "r", "e", "n", "c",
                     "y">>, PropOf(transaction, <<"c", "u", "r", "r", "e",
                     "n", "c", "y">>)>>,
                 <<<<"e", "n", "d", "i", "n", "g", "B", "a", "l", "a", "n",
                     "c", "e">>, PropOf(transaction, <<"e", "n", "d", "i",
                     "n", "g", "_", "b", "a", "l", "a", "n", "c", "e">>)>>,
                 <<<<"d", "e", "s", "c", "r", "i", "p", "t", "i", "o",
                     "n">>, Nullish(PropOf(transaction, <<"d", "e", "s",
                     "c", "r", "i", "p", "t", "i", "o", "n">>), Undefined)>>,
                 <<<<"m", "e", "t", "a", "d", "a", "t",
                     "a">>, Nullish(PropOf(transaction, <<"m", "e", "t",
                     "a", "d", "a", "t", "a">>), Undefined)>> >>)))
          ELSE Rethrow(sent, response)

debitCustomerBalance(params, response) ==
  LET customerId == PropOf(params, <<"c", "u", "s", "t", "o", "m", "e", "r",
      "I", "d">>)
      amount == PropOf(params, <<"a", "m", "o", "u", "n", "t">>)
      currency == PropOrDefault(params, <<"c", "u", "r", "r", "e", "n", "c",
          "y">>, Str(<<"u", "s", "d">>))
      description == PropOrDefault(params, <<"d", "e", "s", "c", "r", "i",
          "p", "t", "i", "o", "n">>, Str(<<"A", "c", "c", "o", "u", "n",
          "t", " ", "d", "e", "b", "i", "t">>))
      metadata_ == PropOf(params, <<"m", "e", "t", "a", "d", "a", "t", "a">>)
      idempotencyKey == PropOf(params, <<"i", "d", "e", "m", "p", "o", "t",
          "e", "n", "c", "y", "K", "e", "y">>)
  IN IF AtMostZero(amount)
     THEN Threw(<<>>, NewError(<<"A", "m", "o", "u", "n", "t", " ", "m",
         "u", "s", "t", " ", "b", "e", " ", "g", "r", "e", "a", "t", "e",
         "r", " ", "t", "h", "a", "n", " ", "0">>))
     ELSE IF ~Truthy(customerId) \/ ~StartsWith(customerId.s, <<"c", "u",
         "s", "_">>)
     THEN Threw(<<>>, NewError(<<"I", "n", "v", "a", "l", "i", "d", " ",
         "c", "u", "s", "t", "o", "m", "e", "r", " ", "I", "D", " ", "f",
         "o", "r", "m", "a", "t", " ", "(", "m", "u", "s", "t", " ", "s",
         "t", "a", "r", "t", " ", "w", "i", "t", "h", " ", "c", "u", "s",
         "_", ")">>))
     ELSE
       LET key == IF Truthy(idempotencyKey) THEN idempotencyKey
                  ELSE Str(generateIdempotencyKey(<<"b", "a", "l", "a", "n",
                      "c", "e", "-", "d", "e", "b", "i", "t">>, params))
           body == Obj(FromEntries(
                     << <<<<"a", "m", "o", "u", "n", "t">>, amount>>,
                        <<<<"c", "u", "r", "r", "e", "n", "c",
                            "y">>, Str(ToLowerCase(currency.s))>>,
                        <<<<"d", "e", "s", "c", "r", "i", "p", "t", "i",
                            "o", "n">>, description>> >>
                     \o SpreadIf(metadata_, << <<<<"m", "e", "t", "a", "d",
                         "a", "t", "a">>, metadata_>> >>)))
           sent == <<Request("customers.createBalanceTransaction",
                             <<customerId, body>>, key)>>
           transaction == BalanceTransactionResource(customerId, body)
       IN IF response = Unanswered THEN Awaiting(sent)
          ELSE IF response.t = "ok"
          THEN Returned(sent, Obj(FromEntries(<<
                 <<<<"t", "r", "a", "n", "s", "a", "c", "t", "i", "o", "n",
                     "I", "d">>, PropOf(transaction, <<"i", "d">>)>>,
                 <<<<"c", "u", "s", "t", "o", "m", "e", "r", "I",
                     "d">>, PropOf(transaction, <<"c", "u", "s", "t", "o",
                     "m", "e", "r">>)>>,
                 <<<<"a", "m", "o", "u", "n",
                     "t">>, PropOf(transaction, <<"a", "m", "o", "u", "n",
                     "t">>)>>,
                 <<<<"c", "u", "r", "r", "e", "n", "c",
                     "y">>, PropOf(transaction, <<"c", "u", "r", "r", "e",
                     "n", "c", "y">>)>>,
                 <<<<"e", "n", "d", "i", "n", "g", "B", "a", "l", "a", "n",
                     "c", "e">>, PropOf(transaction, <<"e", "n", "d", "i",
                     "n", "g", "_", "b", "a", "l", "a", "n", "c", "e">>)>>,
                 <<<<"d", "e", "s", "c", "r", "i", "p", "t", "i", "o",
                     "n">>, Nullish(PropOf(transaction, <<"d", "e", "s",
                     "c", "r", "i", "p", "t", "i", "o", "n">>), Undefined)>>,
                 <<<<"m", "e", "t", "a", "d", "a", "t",
                     "a">>, Nullish(PropOf(transaction, <<"m", "e", "t",
                     "a", "d", "a", "t", "a">>), Undefined)>> >>)))
          ELSE Rethrow(sent, response)

(***************************************************************************)
(* coupons/deleteCoupon and coupons/deactivatePromotionCode                *)
(***************************************************************************)
\* a provider request made without request options
RequestWithoutOptions(api, args) ==
  [api |-> api, args |-> args, options |-> Undefined]

\* await stripe.coupons.del(couponId); a failure is thrown again as it is
deleteCoupon(couponId, response) ==
  LET sent == <<RequestWithoutOptions("coupons.del", <<couponId>>)>>
  IN IF response = Unanswered THEN Awaiting(sent)
     ELSE IF response.t = "ok" THEN Returned(sent, Undefined)
     ELSE Threw(sent, response)

\* return await stripe.promotionCodes.update(promotionCodeId, { active:
\* false }); a failure is thrown again as it is
deactivatePromotionCode(promotionCodeId, response) ==
  LET update == Obj(<< <<<<"a", "c", "t", "i", "v", "e">>, Bool(FALSE)>> >>)
      sent == <<RequestWithoutOptions("promotionCodes.update",
                                      <<promotionCodeId, update>>)>>
      updated == Obj(FromEntries(<< <<<<"i", "d">>, promotionCodeId>>,
                                    <<<<"a", "c", "t", "i", "v",
                                        "e">>, Bool(FALSE)>> >>))
  IN IF response = Unanswered THEN Awaiting(sent)
     ELSE IF response.t = "ok" THEN Returned(sent, updated)
     ELSE Threw(sent, response)

(***************************************************************************)
(* The wrappers that read: getCoupon, getPromotionCode,                    *)
(* listPromotionCodesForCoupon, getCustomerBalance, listBalanceTransactions *)
(***************************************************************************)
\* return await stripe.coupons.retrieve(couponId); a failure is thrown again
\* as it is
getCoupon(couponId, response) ==
  LET sent == <<RequestWithoutOptions("coupons.retrieve", <<couponId>>)>>
      coupon == CouponResource(Obj(FromEntries(<<
                  <<<<"i", "d">>, couponId>>, <<<<"p", "e", "r", "c", "e",
                      "n", "t", "_", "o", "f", "f">>, Num(10)>>,
                  <<<<"d", "u", "r", "a", "t", "i", "o", "n">>, Str(<<"o",
                      "n", "c", "e">>)>> >>)))
  IN IF response = Unanswered THEN Awaiting(sent)
     ELSE IF response.t = "ok" THEN Returned(sent, coupon)
     ELSE Threw(sent, response)

\* return await stripe.promotionCodes.retrieve(promotionCodeId); a failure
\* is thrown again as it is
getPromotionCode(promotionCodeId, response) ==
  LET sent == <<RequestWithoutOptions("promotionCodes.retrieve",
                                      <<promotionCodeId>>)>>
      promotionCode == Obj(FromEntries(<< <<<<"i", "d">>, promotionCodeId>>,
                                          <<<<"a", "c", "t", "i", "v", "e">>,
                                              Bool(TRUE)>> >>))
  IN IF response = Unanswered THEN Awaiting(sent)
     ELSE IF response.t = "ok" THEN Returned(sent, promotionCode)
     ELSE Threw(sent, response)

\* const result = await stripe.promotionCodes.list({ coupon: couponId,
\* limit }); return result.data; limit is 100 when not given; a failure is
\* thrown again as it is
listPromotionCodesForCoupon(couponId, limit, response) ==
  LET query == Obj(FromEntries(<<
                 <<<<"c", "o", "u", "p", "o", "n">>, couponId>>,
                 <<<<"l", "i", "m", "i", "t">>, ArgOrDefault(limit,
                     Num(100))>> >>))
      sent == <<RequestWithoutOptions("promotionCodes.list", <<query>>)>>
      data == Arr(<<PromotionCodeResource(Obj(FromEntries(<<
                      <<<<"c", "o", "u", "p", "o", "n">>, couponId>>,
                      <<<<"a", "c", "t", "i", "v", "e">>, Bool(TRUE)>>
                          >>)))>>)
  IN IF response = Unanswered THEN Awaiting(sent)
     ELSE IF response.t = "ok" THEN Returned(sent, data)
     ELSE Threw(sent, response)

\* const customer = await stripe.customers.retrieve(customerId); a deleted
\* customer throws, any other gives { balance: customer.balance || 0,
\* currency: customer.currency || 'usd' }; the catch block throws again
\* what it caught
getCustomerBalance(customerId, response) ==
  LET sent == <<RequestWithoutOptions("customers.retrieve", <<customerId>>)>>
  IN IF response = Unanswered THEN Awaiting(sent)
     ELSE IF response.t # "ok" THEN Threw(sent, response)
     ELSE IF Truthy(PropOf(response.customer, <<"d", "e", "l", "e", "t", "e",
         "d">>))
     THEN Threw(sent, NewError(<<"C", "u", "s", "t", "o", "m", "e", "r", " ",
         "h", "a", "s", " ", "b", "e", "e", "n", " ", "d", "e", "l", "e",
         "t", "e", "d">>))
     ELSE Returned(sent, Obj(FromEntries(<<
            <<<<"b", "a", "l", "a", "n", "c", "e">>,
              LogicalOr(PropOf(response.customer, <<"b", "a", "l", "a", "n",
                  "c", "e">>), Num(0))>>,
            <<<<"c", "u", "r", "r", "e", "n", "c", "y">>,
              LogicalOr(PropOf(response.customer, <<"c", "u", "r", "r", "e",
                  "n", "c", "y">>),
                        Str(<<"u", "s", "d">>))>> >>)))

\* const result = await stripe.customers.listBalanceTransactions(customerId,
\* { limit }); return result.data; limit is 100 when not given; a failure is
\* thrown again as it is
listBalanceTransactions(customerId, limit, response) ==
  LET query == Obj(FromEntries(<<
                 <<<<"l", "i", "m", "i", "t">>, ArgOrDefault(limit,
                     Num(100))>> >>))
      sent == <<RequestWithoutOptions("customers.listBalanceTransactions",
                                      <<customerId, query>>)>>
      data == Arr(<<BalanceTransactionResource(customerId, Obj(FromEntries(<<
                      <<<<"a", "m", "o", "u", "n", "t">>, Num(-500)>>,
                      <<<<"c", "u", "r", "r", "e", "n", "c", "y">>,
                          Str(<<"u", "s", "d">>)>> >>)))>>)
  IN IF response = Unanswered THEN Awaiting(sent)
     ELSE IF response.t = "ok" THEN Returned(sent, data)
     ELSE Threw(sent, response)

(***************************************************************************)
(* Inputs of the wrappers                                                  *)
(***************************************************************************)
MaxCalls == 2   \* wrapper invocations in one behaviour

TenantMetadata == Obj(FromEntries(<< <<<<"t", "e", "n", "a", "n", "t", "I",
    "d">>, Str(<<"t", "1">>)>> >>))

\* an idempotencyKey of the caller's own, and an empty one
RetryKey == <<<<"i", "d", "e", "m", "p", "o", "t", "e", "n", "c", "y", "K",
    "e", "y">>, Str(<<"r", "e", "t", "r", "y", "-", "1">>)>>
EmptyKey == <<<<"i", "d", "e", "m", "p", "o", "t", "e", "n", "c", "y", "K",
    "e", "y">>, Str(<<>>)>>

\* the params of createCoupon calls: a discount alone; the same with the
\* default duration named; every field and a key of the caller's own; a
\* percentOff of 0 beside amountOff, with an empty key; and five that a
\* check refuses
CouponParams ==
  {Obj(FromEntries(es)) : es \in {
     << <<<<"p", "e", "r", "c", "e", "n", "t", "O", "f", "f">>, Num(10)>> >>,
     << <<<<"p", "e", "r", "c", "e", "n", "t", "O", "f", "f">>, Num(10)>>,
         <<<<"d", "u", "r", "a", "t", "i", "o", "n">>, Str(<<"o", "n", "c",
         "e">>)>> >>,
     << <<<<"i", "d">>, Str(<<"S", "A", "V", "E", "1", "0">>)>>, <<<<"p",
         "e", "r", "c", "e", "n", "t", "O", "f", "f">>, Num(10)>>, <<<<"d",
         "u", "r", "a", "t", "i", "o", "n">>, Str(<<"r", "e", "p", "e", "a",
         "t", "i", "n", "g">>)>>, <<<<"d", "u", "r", "a", "t", "i", "o", "n",
         "I", "n", "M", "o", "n", "t", "h", "s">>, Num(3)>>, <<<<"m", "a",
         "x", "R", "e", "d", "e", "m", "p", "t", "i", "o", "n", "s">>,
         Num(5)>>, <<<<"r", "e", "d", "e", "e", "m", "B", "y">>,
         Num(1900000000)>>, <<<<"n", "a", "m", "e">>, Str(<<"T", "e",
         "n">>)>>, <<<<"m", "e", "t", "a", "d", "a", "t", "a">>,
         TenantMetadata>>, RetryKey >>,
     << <<<<"p", "e", "r", "c", "e", "n", "t", "O", "f", "f">>, Num(0)>>,
         <<<<"a", "m", "o", "u", "n", "t", "O", "f", "f">>, Num(500)>>,
         <<<<"c", "u", "r", "r", "e", "n", "c", "y">>, Str(<<"u", "s",
         "d">>)>>, EmptyKey >>,
     << <<<<"a", "m", "o", "u", "n", "t", "O", "f", "f">>, Num(500)>> >>,
     <<>>,
     << <<<<"p", "e", "r", "c", "e", "n", "t", "O", "f", "f">>, Num(10)>>,
         <<<<"a", "m", "o", "u", "n", "t", "O", "f", "f">>, Num(500)>> >>,
     << <<<<"a", "m", "o", "u", "n", "t", "O", "f", "f">>, Num(500)>>,
         <<<<"c", "u", "r", "r", "e", "n", "c", "y">>, Str(<<>>)>> >>,
     << <<<<"p", "e", "r", "c", "e", "n", "t", "O", "f", "f">>, Num(10)>>,
         <<<<"d", "u", "r", "a", "t", "i", "o", "n">>, Str(<<"r", "e", "p",
         "e", "a", "t", "i", "n", "g">>)>> >> }}

CouponIds == {Str(<<"S", "A", "V", "E", "1", "0">>)}
PromotionCodeIds == {Str(<<"p", "r", "o", "m", "o", "_", "1">>)}
CustomerIds == {Str(<<"c", "u", "s", "_", "1">>)}

\* the params of createPromotionCode calls: the coupon alone, every field
\* with a key of the caller's own, and an empty key
PromotionCodeParams ==
  {Obj(FromEntries(es)) : es \in {
     << <<<<"c", "o", "u", "p", "o", "n", "I", "d">>, Str(<<"S", "A", "V",
         "E", "1", "0">>)>> >>,
     << <<<<"c", "o", "u", "p", "o", "n", "I", "d">>, Str(<<"S", "A", "V",
         "E", "1", "0">>)>>, <<<<"c", "o", "d", "e">>, Str(<<"V", "I",
         "P">>)>>, <<<<"m", "a", "x", "R", "e", "d", "e", "m", "p", "t", "i",
         "o", "n", "s">>, Num(1)>>, <<<<"e", "x", "p", "i", "r", "e", "s",
         "A", "t">>, Num(1900000000)>>, <<<<"m", "e", "t", "a", "d", "a",
         "t", "a">>, TenantMetadata>>, <<<<"r", "e", "s", "t", "r", "i", "c",
         "t", "i", "o", "n", "s">>, Obj(FromEntries(<< <<<<"f", "i", "r",
         "s", "t", "T", "i", "m", "e", "T", "r", "a", "n", "s", "a", "c",
         "t", "i", "o", "n">>, Bool(FALSE)>>, <<<<"m", "i", "n", "i", "m",
         "u", "m", "A", "m", "o", "u", "n", "t">>, Num(1000)>> >>))>>,
         RetryKey >>,
     << <<<<"c", "o", "u", "p", "o", "n", "I", "d">>, Str(<<"S", "A", "V",
         "E", "1", "0">>)>>, EmptyKey >> }}

\* the params of creditCustomerBalance calls: customer and amount, given in
\* either order; the same with the defaults named; every field, an amount
\* of Infinity and a key of the caller's own; an empty key; and two that a
\* check refuses
CreditParams ==
  {Obj(FromEntries(es)) : es \in {
     << <<<<"c", "u", "s", "t", "o", "m", "e", "r", "I", "d">>, Str(<<"c",
         "u", "s", "_", "1">>)>>, <<<<"a", "m", "o", "u", "n", "t">>,
         Num(500)>> >>,
     << <<<<"a", "m", "o", "u", "n", "t">>, Num(500)>>, <<<<"c", "u", "s",
         "t", "o", "m", "e", "r", "I", "d">>, Str(<<"c", "u", "s", "_",
         "1">>)>> >>,
     << <<<<"c", "u", "s", "t", "o", "m", "e", "r", "I", "d">>, Str(<<"c",
         "u", "s", "_", "1">>)>>, <<<<"a", "m", "o", "u", "n", "t">>,
         Num(500)>>, <<<<"c", "u", "r", "r", "e", "n", "c", "y">>, Str(<<"U",
         "S", "D">>)>>, <<<<"d", "e", "s", "c", "r", "i", "p", "t", "i", "o",
         "n">>, Str(<<"A", "c", "c", "o", "u", "n", "t", " ", "c", "r", "e",
         "d", "i", "t">>)>> >>,
     << <<<<"a", "m", "o", "u", "n", "t">>, PosInfinity>>, <<<<"c", "u", "s",
         "t", "o", "m", "e", "r", "I", "d">>, Str(<<"c", "u", "s", "_",
         "1">>)>>, <<<<"c", "u", "r", "r", "e", "n", "c", "y">>, Str(<<"U",
         "S", "D">>)>>, <<<<"d", "e", "s", "c", "r", "i", "p", "t", "i", "o",
         "n">>, Str(<<"R", "e", "w", "a", "r", "d">>)>>, <<<<"m", "e", "t",
         "a", "d", "a", "t", "a">>, TenantMetadata>>, RetryKey >>,
     << <<<<"c", "u", "s", "t", "o", "m", "e", "r", "I", "d">>, Str(<<"c",
         "u", "s", "_", "1">>)>>, <<<<"a", "m", "o", "u", "n", "t">>,
         Num(500)>>, EmptyKey >>,
     << <<<<"c", "u", "s", "t", "o", "m", "e", "r", "I", "d">>, Str(<<"c",
         "u", "s", "_", "1">>)>>, <<<<"a", "m", "o", "u", "n", "t">>,
         Num(0)>> >>,
     << <<<<"c", "u", "s", "t", "o", "m", "e", "r", "I", "d">>, Str(<<"a",
         "c", "c", "t", "_", "1">>)>>, <<<<"a", "m", "o", "u", "n", "t">>,
         Num(500)>> >> }}

\* the params of debitCustomerBalance calls: customer and amount; the same
\* with the defaults named; a key of the caller's own; an empty key; and
\* two that a check refuses
DebitParams ==
  {Obj(FromEntries(es)) : es \in {
     << <<<<"c", "u", "s", "t", "o", "m", "e", "r", "I", "d">>, Str(<<"c",
         "u", "s", "_", "1">>)>>, <<<<"a", "m", "o", "u", "n", "t">>,
         Num(500)>> >>,
     << <<<<"c", "u", "s", "t", "o", "m", "e", "r", "I", "d">>, Str(<<"c",
         "u", "s", "_", "1">>)>>, <<<<"a", "m", "o", "u", "n", "t">>,
         Num(500)>>, <<<<"c", "u", "r", "r", "e", "n", "c", "y">>, Str(<<"U",
         "S", "D">>)>>, <<<<"d", "e", "s", "c", "r", "i", "p", "t", "i", "o",
         "n">>, Str(<<"A", "c", "c", "o", "u", "n", "t", " ", "d", "e", "b",
         "i", "t">>)>> >>,
     << <<<<"c", "u", "s", "t", "o", "m", "e", "r", "I", "d">>, Str(<<"c",
         "u", "s", "_", "1">>)>>, <<<<"a", "m", "o", "u", "n", "t">>,
         Num(500)>>, RetryKey >>,
     << <<<<"c", "u", "s", "t", "o", "m", "e", "r", "I", "d">>, Str(<<"c",
         "u", "s", "_", "1">>)>>, <<<<"a", "m", "o", "u", "n", "t">>,
         Num(500)>>, EmptyKey >>,
     << <<<<"c", "u", "s", "t", "o", "m", "e", "r", "I", "d">>, Str(<<"c",
         "u", "s", "_", "1">>)>>, <<<<"a", "m", "o", "u", "n", "t">>,
         Num(-5)>> >>,
     << <<<<"c", "u", "s", "t", "o", "m", "e", "r", "I", "d">>, Str(<<"a",
         "c", "c", "t", "_", "1">>)>>, <<<<"a", "m", "o", "u", "n", "t">>,
         Num(500)>> >> }}

\* the arguments of the other wrappers, by name: an id, and for the two
\* that list, an id alone or an id and a limit
Named(name, values) == {Obj(<< <<name, value>> >>) : value \in values}
WithLimit(arguments) ==
  arguments
  \cup {Obj(Append(argument.props, <<<<"l", "i", "m", "i", "t">>, Num(10)>>))
      :
          argument \in arguments}

CouponArguments == Named(<<"c", "o", "u", "p", "o", "n", "I", "d">>,
    CouponIds)
PromotionCodeArguments == Named(<<"p", "r", "o", "m", "o", "t", "i", "o",
    "n", "C", "o", "d", "e", "I", "d">>, PromotionCodeIds)
CustomerArguments == Named(<<"c", "u", "s", "t", "o", "m", "e", "r", "I",
    "d">>, CustomerIds)

(***************************************************************************)
(* State machine of the wrappers: a caller invokes wrappers, each runs up  *)
(* to its await and waits there for the provider; the provider answers the *)
(* outstanding requests in any order, and the wrapper that waited for the  *)
(* answer runs to its end. A caller may invoke a wrapper while earlier     *)
(* calls wait, and may invoke one again with the params of an earlier      *)
(* call.                                                                   *)
(***************************************************************************)
InitWrap ==
  /\ KeyIdle
  /\ MetaIdle
  /\ UtilIdle
  /\ CacheIdle
  /\ calls = <<>>
  /\ requests = <<>>

\* what each wrapper does on each of the inputs: up to its await while the
\* provider has not answered, and to its end under each response
Outcomes ==
  [createCoupon |->
     [params \in CouponParams |->
        [response \in ProviderResponses \cup {Unanswered} |->
           createCoupon(params, response)]],
   getCoupon |->
     [params \in CouponArguments |->
        [response \in ProviderResponses \cup {Unanswered} |->
           getCoupon(PropOf(params, <<"c", "o", "u", "p", "o", "n", "I",
               "d">>), response)]],
   deleteCoupon |->
     [params \in CouponArguments |->
        [response \in ProviderResponses \cup {Unanswered} |->
           deleteCoupon(PropOf(params, <<"c", "o", "u", "p", "o", "n", "I",
               "d">>), response)]],
   createPromotionCode |->
     [params \in PromotionCodeParams |->
        [response \in ProviderResponses \cup {Unanswered} |->
           createPromotionCode(params, response)]],
   getPromotionCode |->
     [params \in PromotionCodeArguments |->
        [response \in ProviderResponses \cup {Unanswered} |->
           getPromotionCode(PropOf(params, <<"p", "r", "o", "m", "o", "t",
               "i", "o", "n", "C", "o", "d", "e", "I", "d">>), response)]],
   deactivatePromotionCode |->
     [params \in PromotionCodeArguments |->
        [response \in ProviderResponses \cup {Unanswered} |->
           deactivatePromotionCode(PropOf(params, <<"p", "r", "o", "m", "o",
               "t", "i", "o", "n", "C", "o", "d", "e", "I", "d">>),
                                   response)]],
   listPromotionCodesForCoupon |->
     [params \in WithLimit(CouponArguments) |->
        [response \in ProviderResponses \cup {Unanswered} |->
           listPromotionCodesForCoupon(PropOf(params, <<"c", "o", "u", "p",
               "o", "n", "I", "d">>),
                                       PropOf(params, <<"l", "i", "m", "i",
                                           "t">>), response)]],
   creditCustomerBalance |->
     [params \in CreditParams |->
        [response \in ProviderResponses \cup {Unanswered} |->
           creditCustomerBalance(params, response)]],
   debitCustomerBalance |->
     [params \in DebitParams |->
        [response \in ProviderResponses \cup {Unanswered} |->
           debitCustomerBalance(params, response)]],
   getCustomerBalance |->
     [params \in CustomerArguments |->
        [response \in CustomerResponses(PropOf(params, <<"c", "u", "s", "t",
            "o", "m", "e", "r", "I", "d">>))
                        \cup {Unanswered} |->
           getCustomerBalance(PropOf(params, <<"c", "u", "s", "t", "o", "m",
               "e", "r", "I", "d">>), response)]],
   listBalanceTransactions |->
     [params \in WithLimit(CustomerArguments) |->
        [response \in ProviderResponses \cup {Unanswered} |->
           listBalanceTransactions(PropOf(params, <<"c", "u", "s", "t", "o",
               "m", "e", "r", "I", "d">>),
                                   PropOf(params, <<"l", "i", "m", "i",
                                       "t">>), response)]]]

\* the answers the provider may give to the request of a call
Answers(call) == DOMAIN Outcomes[call.wrapper][call.params] \ {Unanswered}

\* the requests of call c as the provider holds them
Received(c, sent, response) ==
  [i \in 1..Len(sent) |->
     [call |-> c, api |-> sent[i].api, args |-> sent[i].args,
      options |-> sent[i].options, response |-> response]]

\* one invocation, up to the await or to the throw that comes before it:
\* the call is recorded as waiting or with what it threw, and the request
\* it sent reaches the provider; the arguments are recorded by name
Invoke(wrapper, params) ==
  LET started == Outcomes[wrapper][params][Unanswered]
  IN /\ Len(calls) < MaxCalls
     /\ calls' = Append(calls, [wrapper |-> wrapper, params |-> params,
                                outcome |-> started.outcome])
     /\ requests' = requests \o
                      Received(Len(calls) + 1, started.sent, Unanswered)
     /\ UNCHANGED <<keyVars, metaVars, utilVars, cacheVars>>

CreateCoupon == \E params \in CouponParams : Invoke("createCoupon", params)

CreatePromotionCode ==
  \E params \in PromotionCodeParams : Invoke("createPromotionCode", params)

CreditCustomerBalance ==
  \E params \in CreditParams : Invoke("creditCustomerBalance", params)

DebitCustomerBalance ==
  \E params \in DebitParams : Invoke("debitCustomerBalance", params)

GetCoupon == \E params \in CouponArguments : Invoke("getCoupon", params)

DeleteCoupon ==
  \E params \in CouponArguments : Invoke("deleteCoupon", params)

GetPromotionCode ==
  \E params \in PromotionCodeArguments : Invoke("getPromotionCode", params)

DeactivatePromotionCode ==
  \E params \in PromotionCodeArguments :
    Invoke("deactivatePromotionCode", params)

ListPromotionCodesForCoupon ==
  \E params \in WithLimit(CouponArguments) :
    Invoke("listPromotionCodesForCoupon", params)

GetCustomerBalance ==
  \E params \in CustomerArguments : Invoke("getCustomerBalance", params)

ListBalanceTransactions ==
  \E params \in WithLimit(CustomerArguments) :
    Invoke("listBalanceTransactions", params)

\* the provider answers an outstanding request, with a resource or with an
\* error, and the wrapper that waited for it runs from its await to its
\* end: the call returns or throws, and what it sent after the request
\* that was answered reaches the provider too
Settle ==
  \E i \in 1..Len(requests) :
  \E response \in Answers(calls[requests[i].call]) :
    LET c == requests[i].call
        done == Outcomes[calls[c].wrapper][calls[c].params][response]
    IN /\ requests[i].response = Unanswered
       /\ calls[c].outcome.t = "awaiting"
       /\ calls' = [calls EXCEPT ![c].outcome = done.outcome]
       /\ requests' = [requests EXCEPT ![i].response = response] \o
                        Received(c, Tail(done.sent), response)
       /\ UNCHANGED <<keyVars, metaVars, utilVars, cacheVars>>

NextWrap ==
  \/ CreateCoupon
  \/ GetCoupon
  \/ DeleteCoupon
  \/ CreatePromotionCode
  \/ GetPromotionCode
  \/ DeactivatePromotionCode
  \/ ListPromotionCodesForCoupon
  \/ CreditCustomerBalance
  \/ DebitCustomerBalance
  \/ GetCustomerBalance
  \/ ListBalanceTransactions
  \/ Settle

SpecWrap == InitWrap /\ [][NextWrap]_vars

(***************************************************************************)
(* utils/metadata: mergeMetadata, extractTenantId, extractUserId           *)
(***************************************************************************)
\* metadataObjects.forEach(meta => { if (meta) Object.assign(merged, meta) })
RECURSIVE AssignEach(_, _)
AssignEach(merged, metadataObjects) ==
  IF metadataObjects = <<>> THEN merged
  ELSE LET meta == Head(metadataObjects)
           next == IF Truthy(meta) THEN AssignAll(merged, meta.props)
                   ELSE merged
       IN IF Len(next) >= Len(merged)
          THEN AssignEach(next, Tail(metadataObjects))
          ELSE next

mergeMetadata(metadataObjects) ==
  LET merged == AssignEach(<<>>, metadataObjects)
  IN createMetadata(merged)

\* extractTenantId that prefers the alternate spelling
extractTenantIdAlternateFirst(md) ==
  IF ~Truthy(md) THEN Null
  ELSE LogicalOr(PropOf(md, <<"t", "e", "n", "a", "n", "t", "_", "i", "d">>),
                 LogicalOr(PropOf(md, <<"t", "e", "n", "a", "n", "t", "I",
                     "d">>), Null))

extractTenantId(md) ==
  IF ~Truthy(md) THEN Null
  ELSE LogicalOr(PropOf(md, <<"t", "e", "n", "a", "n", "t", "I", "d">>),
                 LogicalOr(PropOf(md, <<"t", "e", "n", "a", "n", "t", "_",
                     "i", "d">>), Null))

extractUserId(md) ==
  IF ~Truthy(md) THEN Null
  ELSE LogicalOr(PropOf(md, <<"u", "s", "e", "r", "I", "d">>),
                 LogicalOr(PropOf(md, <<"u", "s", "e", "r", "_", "i",
                     "d">>), Null))

(***************************************************************************)
(* utils/idempotency: the helpers that inspect a caught error               *)
(***************************************************************************)
\* v?.[k]: undefined when v is null or undefined, and when v has no such
\* property
OptionalProp(v, k) == IF v.t = "object" THEN PropOf(v, k) ELSE Undefined

\* a caught error as the object the helpers inspect: its message and the
\* fields the provider set on it
ErrorObject(error) ==
  Obj(FromEntries(
    << <<<<"m", "e", "s", "s", "a", "g", "e">>, Str(error.message)>> >>
    \o (IF "type" \in DOMAIN error THEN << <<<<"t", "y", "p",
        "e">>, Str(error.type)>> >>
        ELSE <<>>)
    \o (IF "code" \in DOMAIN error THEN << <<<<"c", "o", "d",
        "e">>, Str(error.code)>> >>
        ELSE <<>>)
    \o (IF "headers" \in DOMAIN error
        THEN << <<<<"h", "e", "a", "d", "e", "r", "s">>, error.headers>> >>
        ELSE <<>>)))

extractIdempotencyKeyFromError(error) ==
  IF Truthy(OptionalProp(OptionalProp(error, <<"h", "e", "a", "d", "e", "r",
      "s">>),
                         <<"i", "d", "e", "m", "p", "o", "t", "e", "n", "c",
                             "y", "-", "k", "e", "y">>))
  THEN PropOf(PropOf(error, <<"h", "e", "a", "d", "e", "r", "s">>), <<"i",
      "d", "e", "m", "p", "o", "t", "e", "n", "c", "y", "-", "k", "e", "y">>)
  ELSE IF Truthy(OptionalProp(OptionalProp(OptionalProp(error, <<"r", "a",
      "w">>),
                                           <<"h", "e", "a", "d", "e", "r",
                                               "s">>), <<"i", "d", "e", "m",
                                               "p", "o", "t", "e", "n", "c",
                                               "y", "-", "k", "e", "y">>))
  THEN PropOf(PropOf(PropOf(error, <<"r", "a", "w">>), <<"h", "e", "a", "d",
      "e", "r", "s">>),
              <<"i", "d", "e", "m", "p", "o", "t", "e", "n", "c", "y", "-",
                  "k", "e", "y">>)
  ELSE Null

\* a classification that looks at the type alone
isIdempotencyErrorByType(error) ==
  IF ~Truthy(OptionalProp(error, <<"t", "y", "p", "e">>)) THEN Bool(FALSE)
  ELSE Bool(PropOf(error, <<"t", "y", "p", "e">>) = Str(<<"i", "d", "e",
      "m", "p", "o", "t", "e", "n", "c", "y", "_", "e", "r", "r", "o", "r">>))

isIdempotencyError(error) ==
  IF ~Truthy(OptionalProp(error, <<"t", "y", "p", "e">>)) THEN Bool(FALSE)
  ELSE Bool((PropOf(error, <<"t", "y", "p", "e">>) = Str(<<"i", "d", "e",
      "m", "p", "o", "t", "e", "n", "c", "y", "_", "e", "r", "r", "o", "r">>))
      \/ (PropOf(error, <<"c", "o", "d", "e">>) = Str(<<"i", "d", "e", "m",
      "p", "o", "t", "e", "n", "c", "y", "_", "k", "e", "y", "_", "i", "n",
      "_", "u", "s", "e">>)))

(***************************************************************************)
(* Inputs of the metadata and error helpers                                *)
(***************************************************************************)
MaxArgs == 3   \* arguments of one mergeMetadata call

MergeKeys == {<<"a">>, <<"b">>}
MergeValues == {Str(<<"1">>), Str(<<"2">>)}

\* an absent argument, or a mapping of at most two entries
MergeArguments ==
  {Undefined} \cup {Obj(props) : props \in Built(MergeKeys, MergeValues)}

\* the entries lo..hi of a large mapping, keys len characters long and
\* values marked by tag
MergeRows(lo, hi, len, tag) ==
  [i \in 1..(hi - lo + 1) |->
     <<LargeKey(lo + i - 1, len, FALSE), Str(<<tag>> \o NatToString(lo + i -
         1))>>]

\* two overlapping large mappings around an absent argument; together they
\* hold one entry fewer than the limit, as many, or one more
LargeMerges ==
  {<<Obj(MergeRows(1, 30, len,
      "x")), Undefined, Obj(MergeRows(21, last, len, "y"))>> :
     <<len, last>> \in {4, MaxKeyLength + 1} \X {MaxKeys - 1, MaxKeys,
         MaxKeys + 1}}

\* mappings with an own property named __proto__, as JSON.parse builds them
ProtoMerges ==
  {<<Obj(FromEntries(<< <<ProtoKey, Str(<<"1">>)>>, <<<<"a">>, Str(<<"1">>)>> >>)),
     Obj(FromEntries(<< <<ProtoKey, Str(<<"2">>)>> >>))>>,
   <<Obj(FromEntries(<< <<ProtoKey, Str(<<"1">>)>> >>))>>,
   <<Obj(FromEntries(<< <<MaxArrayIndex, Str(<<"1">>)>> >>)),
     Obj(FromEntries(<< <<<<"a">>, Str(<<"1">>)>>, <<<<"9">>, Str(<<"2">>)>> >>))>>}

MergeInputs ==
  SeqsUpTo(MergeArguments, MaxArgs) \cup LargeMerges \cup ProtoMerges

\* the values an identifier entry may hold; <<>> stands for no entry
IdChoices(id) == {<<>>, <<Str(id)>>, <<Str(<<>>)>>, <<Null>>}

\* an absent mapping, a null one, and mappings with or without an entry
\* under the primary and the alternate key
IdMappings(primary, alternate, id1, id2) ==
  {Undefined, Null} \cup
  {Obj(FromEntries(
     extra
     \o [i \in 1..Len(p) |-> <<primary, p[i]>>]
     \o [i \in 1..Len(a) |-> <<alternate, a[i]>>])) :
     <<extra, p, a>> \in
        {<<>>, << <<<<"p", "l", "a", "n">>, Str(<<"p", "r",
            "o">>)>> >>} \X IdChoices(id1) \X IdChoices(id2)}

TenantInputs == IdMappings(<<"t", "e", "n", "a", "n", "t", "I",
    "d">>, <<"t", "e", "n", "a", "n", "t", "_", "i", "d">>, <<"t",
    "1">>, <<"t", "2">>)
UserInputs == IdMappings(<<"u", "s", "e", "r", "I", "d">>, <<"u", "s", "e",
    "r", "_", "i", "d">>, <<"u", "1">>, <<"u", "2">>)

\* the types, codes and header values an inspected error may hold; <<>>
\* stands for no such field
ErrorTypes ==
  {<<>>, <<Str(<<"i", "d", "e", "m", "p", "o", "t", "e", "n", "c", "y", "_",
      "e", "r", "r", "o", "r">>)>>, <<Str(<<"c", "a", "r", "d", "_", "e",
      "r", "r", "o", "r">>)>>,
   <<Str(<<>>)>>, <<Null>>}
ErrorCodes ==
  {<<>>, <<Str(<<"i", "d", "e", "m", "p", "o", "t", "e", "n", "c", "y", "_",
      "k", "e", "y", "_", "i", "n", "_", "u", "s", "e">>)>>, <<Str(<<"c",
      "a", "r", "d", "_", "d", "e", "c", "l", "i", "n", "e", "d">>)>>}
HeaderChoices ==
  {<<>>, <<Null>>, <<Obj(<<>>)>>,
   <<Obj(<< <<<<"i", "d", "e", "m", "p", "o", "t", "e", "n", "c", "y", "-",
       "k", "e", "y">>, Str(<<>>)>> >>)>>,
   <<Obj(<< <<<<"i", "d", "e", "m", "p", "o", "t", "e", "n", "c", "y", "-",
       "k", "e", "y">>, Str(<<"k", "1">>)>> >>)>>}
RawChoices ==
  {<<>>, <<Obj(<<>>)>>,
   <<Obj(<< <<<<"h", "e", "a", "d", "e", "r", "s">>,
              Obj(<< <<<<"i", "d", "e", "m", "p", "o", "t", "e", "n", "c",
                  "y", "-", "k", "e", "y">>, Str(<<"k", "2">>)>> >>)>> >>)>>}

\* what a caller may catch: nothing, a thrown string, the errors of the
\* provider and of the wrappers, and objects with or without a type, a
\* code, headers and a raw response
ErrorValues ==
  {Undefined, Null, Str(<<"o", "o", "p", "s">>),
   ErrorObject(StripeIdempotencyError), ErrorObject(ConnectionError)} \cup
  {Obj(FromEntries(
     [i \in 1..Len(ty) |-> <<<<"t", "y", "p", "e">>, ty[i]>>]
     \o [i \in 1..Len(co) |-> <<<<"c", "o", "d", "e">>, co[i]>>]
     \o [i \in 1..Len(he) |-> <<<<"h", "e", "a", "d", "e", "r",
         "s">>, he[i]>>]
     \o [i \in 1..Len(ra) |-> <<<<"r", "a", "w">>, ra[i]>>])) :
     <<ty, co, he, ra>> \in
        ErrorTypes \X ErrorCodes \X HeaderChoices \X RawChoices}

(***************************************************************************)
(* State machine of the helpers: a caller makes one call                    *)
(***************************************************************************)
InitUtil ==
  /\ KeyIdle
  /\ MetaIdle
  /\ WrapIdle
  /\ UtilIdle
  /\ CacheIdle

MergeMetadata ==
  /\ util.fn = "none"
  /\ \E metadataObjects \in MergeInputs :
       util' = [fn |-> "mergeMetadata", args |-> metadataObjects,
                result |-> mergeMetadata(metadataObjects)]
  /\ UNCHANGED <<keyVars, metaVars, wrapVars, cacheVars>>

ExtractTenantId ==
  /\ util.fn = "none"
  /\ \E md \in TenantInputs :
       util' = [fn |-> "extractTenantId", args |-> <<md>>,
                result |-> extractTenantId(md)]
  /\ UNCHANGED <<keyVars, metaVars, wrapVars, cacheVars>>

ExtractUserId ==
  /\ util.fn = "none"
  /\ \E md \in UserInputs :
       util' = [fn |-> "extractUserId", args |-> <<md>>,
                result |-> extractUserId(md)]
  /\ UNCHANGED <<keyVars, metaVars, wrapVars, cacheVars>>

IsIdempotencyError ==
  /\ util.fn = "none"
  /\ \E error \in ErrorValues :
       util' = [fn |-> "isIdempotencyError", args |-> <<error>>,
                result |-> isIdempotencyError(error)]
  /\ UNCHANGED <<keyVars, metaVars, wrapVars, cacheVars>>

ExtractIdempotencyKeyFromError ==
  /\ util.fn = "none"
  /\ \E error \in ErrorValues :
       util' = [fn |-> "extractIdempotencyKeyFromError", args |-> <<error>>,
                result |-> extractIdempotencyKeyFromError(error)]
  /\ UNCHANGED <<keyVars, metaVars, wrapVars, cacheVars>>

NextUtil ==
  \/ MergeMetadata
  \/ ExtractTenantId
  \/ ExtractUserId
  \/ IsIdempotencyError
  \/ ExtractIdempotencyKeyFromError

SpecUtil == InitUtil /\ [][NextUtil]_vars

(***************************************************************************)
(* client/StripeClient: the cached client.  getInstance runs to its await  *)
(* (GetInstance), is suspended while Secrets Manager answers, and runs     *)
(* from the answer to its return or throw (ResumeGetInstance); other calls *)
(* run in between.  The caller passes no options.                          *)
(***************************************************************************)
ApiVersion == <<"2", "0", "2", "4", "-", "1", "1", "-", "2", "0", ".", "a",
    "c", "a", "c", "i", "a">>

\* new Stripe(apiKey, { apiVersion, typescript: true }): a new object, told
\* from every other client by id
NewStripe(id, apiKey) ==
  [t |-> "client", id |-> id, apiKey |-> apiKey,
   config |-> Obj(<< <<<<"a", "p", "i", "V", "e", "r", "s", "i", "o",
       "n">>, Str(ApiVersion)>>,
                     <<<<"t", "y", "p", "e", "s", "c", "r", "i", "p",
                         "t">>, Bool(TRUE)>> >>)]

\* what secretsClient.send settles to
Resolved(SecretString) == [t |-> "resolved", SecretString |-> SecretString]
Rejected(error) == [t |-> "rejected", error |-> error]

\* cachedStripeClient && cachedSecretArn === secretArn
CachedFor(secretArn) ==
  Truthy(cachedStripeClient) /\ cachedSecretArn = secretArn

\* getInstance that never looks at the cache
getInstanceUncached(secretArn) == [hit |-> FALSE]

\* getInstance that returns whatever client is cached
getInstanceAnyArn(secretArn) ==
  IF Truthy(cachedStripeClient)
  THEN [hit |-> TRUE, client |-> cachedStripeClient]
  ELSE [hit |-> FALSE]

\* getInstance up to the await: the cached client, or a fetch
getInstance(secretArn) ==
  IF CachedFor(secretArn)
  THEN [hit |-> TRUE, client |-> cachedStripeClient]
  ELSE [hit |-> FALSE]

\* parsed.name for a parsed value that is not null
Member(parsed, name) ==
  IF parsed.t = "object" THEN PropOf(parsed, name) ELSE Undefined

\* the credential looked up under key before apiKey
ApiKeyInKeyFirst(SecretString, parsed) ==
  IF ~parsed.ok \/ parsed.v.t = "null" THEN SecretString
  ELSE LogicalOr(Member(parsed.v, <<"k", "e", "y">>),
         LogicalOr(Member(parsed.v, <<"S", "T", "R", "I", "P", "E", "_",
             "S", "E", "C", "R", "E", "T", "_", "K", "E", "Y">>),
                   Member(parsed.v, <<"a", "p", "i", "K", "e", "y">>)))

\* apiKey = parsed.apiKey || parsed.STRIPE_SECRET_KEY || parsed.key, and
\* catch { apiKey = SecretString } when parsing threw or parsed is null
ApiKeyIn(SecretString, parsed) ==
  IF ~parsed.ok \/ parsed.v.t = "null" THEN SecretString
  ELSE LogicalOr(Member(parsed.v, <<"a", "p", "i", "K", "e", "y">>),
         LogicalOr(Member(parsed.v, <<"S", "T", "R", "I", "P", "E", "_",
             "S", "E", "C", "R", "E", "T", "_", "K", "E", "Y">>),
                   Member(parsed.v, <<"k", "e", "y">>)))

\* what a try block ends in: the apiKey it holds, or the error it threw
Holding(apiKey) == [ok |-> TRUE, apiKey |-> apiKey]
Throwing(error) == [ok |-> FALSE, error |-> error]

InvalidFormat == <<"I", "n", "v", "a", "l", "i", "d", " ", "S", "t", "r",
    "i", "p", "e", " ", "A", "P", "I", " ", "k", "e", "y", " ", "f", "o",
        "r", "m", "a", "t", " ", "(", "m", "u", "s", "t", " ", "s", "t",
            "a", "r", "t", " ", "w", "i", "t", "h", " ", "s", "k", "_", ")">>

\* if (!apiKey || !apiKey.startsWith('sk_')) throw new Error(...)
CheckApiKey(apiKey) ==
  IF ~Truthy(apiKey) THEN Throwing(NewError(InvalidFormat))
  ELSE IF apiKey.t # "string"
  THEN Throwing([t |-> "error", class |-> "TypeError",
                 message |-> <<"a", "p", "i", "K", "e", "y", ".", "s", "t",
                     "a", "r", "t", "s", "W", "i", "t", "h", " ", "i", "s",
                         " ", "n", "o", "t", " ", "a", " ", "f", "u", "n",
                             "c", "t", "i", "o", "n">>])
  ELSE IF ~StartsWith(apiKey.s, <<"s", "k",
      "_">>) THEN Throwing(NewError(InvalidFormat))
  ELSE Holding(apiKey)

\* the try block from the answer of Secrets Manager to the checked apiKey
TryFetch(response) ==
  IF response.t = "rejected" THEN Throwing(response.error)
  ELSE IF ~Truthy(response.SecretString)
  THEN Throwing(NewError(<<"S", "e", "c", "r", "e", "t", " ", "v", "a", "l",
      "u", "e", " ", "i", "s", " ", "e", "m", "p", "t", "y">>))
  ELSE CheckApiKey(ApiKeyIn(response.SecretString,
                            JSONParse(response.SecretString.s)))

FailedToFetch == <<"F", "a", "i", "l", "e", "d", " ", "t", "o", " ", "f",
    "e", "t", "c", "h", " ", "S", "t", "r", "i", "p", "e", " ", "A", "P",
        "I", " ", "k", "e", "y", ":", " ">>
UnknownError == <<"U", "n", "k", "n", "o", "w", "n", " ", "e", "r", "r",
    "o", "r">>

\* the end of getInstance that caches the new client under the ARN cached
\* first
CacheOrThrowKeepingArn(secretArn, id, tried) ==
  IF tried.ok
  THEN [ok |-> TRUE, client |-> NewStripe(id, tried.apiKey),
        cachedStripeClient |-> NewStripe(id, tried.apiKey),
        cachedSecretArn |-> IF cachedSecretArn = Null THEN secretArn
                            ELSE cachedSecretArn]
  ELSE [ok |-> FALSE,
        error |-> NewError(FailedToFetch
                    \o (IF tried.error.t = "error" THEN tried.error.message
                        ELSE UnknownError)),
        cachedStripeClient |-> cachedStripeClient,
        cachedSecretArn |-> cachedSecretArn]

\* the end of getInstance that empties the cache when it throws
CacheOrThrowClearing(secretArn, id, tried) ==
  IF tried.ok
  THEN [ok |-> TRUE, client |-> NewStripe(id, tried.apiKey),
        cachedStripeClient |-> NewStripe(id, tried.apiKey),
        cachedSecretArn |-> secretArn]
  ELSE [ok |-> FALSE,
        error |-> NewError(FailedToFetch
                    \o (IF tried.error.t = "error" THEN tried.error.message
                        ELSE UnknownError)),
        cachedStripeClient |-> Null,
        cachedSecretArn |-> Null]

\* the end of getInstance: the new client (the id-th the program has built)
\* is cached and returned, or the catch block throws the new Error
CacheOrThrow(secretArn, id, tried) ==
  IF tried.ok
  THEN [ok |-> TRUE, client |-> NewStripe(id, tried.apiKey),
        cachedStripeClient |-> NewStripe(id, tried.apiKey),
        cachedSecretArn |-> secretArn]
  ELSE [ok |-> FALSE,
        error |-> NewError(FailedToFetch
                    \o (IF tried.error.t = "error" THEN tried.error.message
                        ELSE UnknownError)),
        cachedStripeClient |-> cachedStripeClient,
        cachedSecretArn |-> cachedSecretArn]

\* getInstance from the answer of Secrets Manager on
getInstanceResumed(secretArn, response, id) ==
  CacheOrThrow(secretArn, id, TryFetch(response))

\* clearCache that forgets the ARN and keeps the client
clearCacheArnOnly ==
  [cachedStripeClient |-> cachedStripeClient, cachedSecretArn |-> Null]

\* clearCache: both fields are set to null
clearCache == [cachedStripeClient |-> Null, cachedSecretArn |-> Null]

(***************************************************************************)
(* Inputs of getInstance                                                   *)
(***************************************************************************)
MaxCacheCalls == 3    \* calls the caller makes of the cache
MaxSecretCalls == 2   \* calls the caller makes when every secret is tried

ArnTags == {"a", "b"}
ArnOf(tag) == Str(<<"a", "r", "n", ":">> \o <<tag>>)
ARNs == {ArnOf(tag) : tag \in ArnTags}
TagOf(secretArn) == secretArn.s[Len(secretArn.s)]

\* the text of a JSON object holding the given entries
JSONText(entries) == Str(SerializeJSON(Obj(FromEntries(entries))))

Credential(tag) == Str(<<"s", "k", "_">> \o <<tag>>)

NotFound ==
  [t |-> "error", class |-> "ResourceNotFoundException",
   message |-> <<"S", "e", "c", "r", "e", "t", "s", " ", "M", "a", "n", "a",
       "g", "e", "r", " ", "c", "a", "n", "'", "t", " ", "f", "i", "n", "d",
       " ", "t", "h", "e", " ", "s", "p", "e", "c", "i", "f", "i", "e", "d",
       " ", "s", "e", "c", "r", "e", "t", ".">>]

\* the answers that suffice to fill, miss and refill the cache: the
\* credential, an empty secret, a key without the prefix, a text that ends
\* inside a JSON word, a failed fetch
CacheAnswers(tag) ==
  {Resolved(Credential(tag)), Resolved(Str(<<>>)),
   Resolved(Str(<<"p", "k", "_">> \o <<tag>>)), Resolved(Str(<<"n", "u",
       "l">>)), Rejected(NotFound)}

\* a secret Secrets Manager may hold, by what it is: a plain text that is
\* not JSON, the JSON text of an object with the entries named, the JSON
\* text of another value, or a secret without a string
PlainSecret(text) == [kind |-> "plain", text |-> text, entries |-> <<>>]
ObjectSecret(text, entries) ==
  [kind |-> "object", text |-> text, entries |-> entries]
ValueSecret(text) == [kind |-> "value", text |-> text, entries |-> <<>>]
BinarySecret == [kind |-> "absent", text |-> <<>>, entries |-> <<>>]

\* plain and JSON secrets, well and ill formed
Secrets(tag) ==
  {PlainSecret(Credential(tag).s),
   PlainSecret(<<"p", "k", "_">> \o <<tag>>),
   PlainSecret(<<>>),
   PlainSecret(<<"n", "u", "l">>),
   PlainSecret(<<"[", "t", "]">>),
   PlainSecret(<<"{", "\"", "a", "p", "i", "K", "e", "y", "\"", ":", "t",
       "r", "u">>),
   BinarySecret,
   ObjectSecret(<<"{", "\"", "a", "p", "i", "K", "e", "y", "\"", ":", "\"",
       "s", "k", "_">> \o <<tag>> \o <<"\"", "}">>,
                << <<<<"a", "p", "i", "K", "e", "y">>, Credential(tag)>> >>),
   ObjectSecret(<<"{", "\"", "S", "T", "R", "I", "P", "E", "_", "S", "E",
       "C", "R", "E", "T", "_", "K", "E", "Y", "\"", ":", "\"", "s", "k",
       "_">> \o <<tag>> \o <<"\"", "}">>,
                << <<<<"S", "T", "R", "I", "P", "E", "_", "S", "E", "C", "R",
                    "E", "T", "_", "K", "E", "Y">>, Credential(tag)>> >>),
   ObjectSecret(<<"{", "\"", "k", "e", "y", "\"", ":", "\"", "s", "k", "_">>
       \o <<tag>> \o <<"\"", "}">>,
                << <<<<"k", "e", "y">>, Credential(tag)>> >>),
   ObjectSecret(<<"{", " ", "\"", "a", "p", "i", "K", "e", "y", "\"", " ",
       ":", " ", "\"", "s", "k", "_">> \o <<tag>> \o <<"\"", " ", "}">>,
                << <<<<"a", "p", "i", "K", "e", "y">>, Credential(tag)>> >>),
   ObjectSecret(<<"{", "\"", "k", "e", "y", "\"", ":", "\"", "s", "k", "_",
       "3", "\"", ",", "\"", "S", "T", "R", "I", "P", "E", "_", "S", "E",
       "C", "R", "E", "T", "_", "K", "E", "Y", "\"", ":", "\"", "s", "k",
       "_", "2", "\"", ",", "\"", "a", "p", "i", "K", "e", "y", "\"", ":",
       "\"", "s", "k", "_">>
                  \o <<tag>> \o <<"\"", "}">>,
                << <<<<"k", "e", "y">>, Str(<<"s", "k", "_", "3">>)>>,
                   <<<<"S", "T", "R", "I", "P", "E", "_", "S", "E", "C", "R",
                       "E", "T", "_", "K", "E", "Y">>, Str(<<"s", "k", "_",
                       "2">>)>>,
                   <<<<"a", "p", "i", "K", "e", "y">>, Credential(tag)>> >>),
   ObjectSecret(<<"{", "\"", "k", "e", "y", "\"", ":", "\"", "s", "k", "_",
       "3", "\"", ",", "\"", "S", "T", "R", "I", "P", "E", "_", "S", "E",
       "C", "R", "E", "T", "_", "K", "E", "Y", "\"", ":", "\"", "s", "k",
       "_">> \o <<tag>>
                  \o <<"\"", "}">>,
                << <<<<"k", "e", "y">>, Str(<<"s", "k", "_", "3">>)>>,
                   <<<<"S", "T", "R", "I", "P", "E", "_", "S", "E", "C", "R",
                       "E", "T", "_", "K", "E", "Y">>, Credential(tag)>> >>),
   ObjectSecret(<<"{", "\"", "a", "p", "i", "K", "e", "y", "\"", ":", "\"",
       "\"", ",", "\"", "k", "e", "y", "\"", ":", "\"", "s", "k", "_">> \o
       <<tag>> \o <<"\"", "}">>,
                << <<<<"a", "p", "i", "K", "e", "y">>, Str(<<>>)>>,
                   <<<<"k", "e", "y">>, Credential(tag)>> >>),
   ObjectSecret(<<"{", "\"", "a", "p", "i", "K", "e", "y", "\"", ":", "n",
       "u", "l", "l", ",", "\"", "k", "e", "y", "\"", ":", "\"", "s", "k",
       "_">> \o <<tag>> \o <<"\"", "}">>,
                << <<<<"a", "p", "i", "K", "e", "y">>, Null>>, <<<<"k", "e",
                    "y">>, Credential(tag)>> >>),
   ObjectSecret(<<"{", "\"", "a", "p", "i", "K", "e", "y", "\"", ":", "\"",
       "p", "k", "_", "1", "\"", ",", "\"", "k", "e", "y", "\"", ":", "\"",
       "s", "k", "_">> \o <<tag>> \o <<"\"", "}">>,
                << <<<<"a", "p", "i", "K", "e", "y">>, Str(<<"p", "k", "_",
                    "1">>)>>,
                   <<<<"k", "e", "y">>, Credential(tag)>> >>),
   ObjectSecret(<<"{", "\"", "s", "e", "c", "r", "e", "t", "\"", ":", "\"",
       "s", "k", "_">> \o <<tag>> \o <<"\"", "}">>,
                << <<<<"s", "e", "c", "r", "e", "t">>, Credential(tag)>> >>),
   ObjectSecret(
     <<"{", "\"", "a", "p", "i", "K", "e", "y", "\"", ":", "\"", "P", "L",
         "A", "C", "E", "H", "O", "L", "D", "E", "R", "\"", ",", "\"", "d",
         "e", "s", "c", "r", "i", "p", "t", "i", "o", "n", "\"", ":", "\"",
         "R", "e", "p", "l", "a", "c", "e", " ", "w", "i", "t", "h", " ",
         "t", "h", "e", " ", "r", "e", "a", "l", " ", "k", "e", "y", "\"",
         "}">>,
     << <<<<"a", "p", "i", "K", "e", "y">>, Str(<<"P", "L", "A", "C", "E",
         "H", "O", "L", "D", "E", "R">>)>>,
        <<<<"d", "e", "s", "c", "r", "i", "p", "t", "i", "o", "n">>,
            Str(<<"R", "e", "p", "l", "a", "c", "e", " ", "w", "i", "t", "h",
            " ", "t", "h", "e", " ", "r", "e", "a", "l", " ", "k", "e",
            "y">>)>> >>),
   ObjectSecret(<<"{", "\"", "a", "p", "i", "K", "e", "y", "\"", ":", "1",
       "2", "3", "}">>, << <<<<"a", "p", "i", "K", "e", "y">>, Num(123)>> >>),
   ValueSecret(<<"n", "u", "l", "l">>),
   ValueSecret(<<"\"", "s", "k", "_">> \o <<tag>> \o <<"\"">>)}

\* response.SecretString for the secret
SecretStringOf(secret) ==
  IF secret.kind = "absent" THEN Undefined ELSE Str(secret.text)

\* the answers of Secrets Manager: each secret, and failed fetches
SecretAnswers(tag) ==
  {Resolved(SecretStringOf(secret)) : secret \in Secrets(tag)}
  \cup {Rejected(NotFound), Rejected(Str(<<"t", "i", "m", "e", "o", "u",
      "t">>))}

(***************************************************************************)
(* State machine of the cached client                                      *)
(***************************************************************************)
\* the module is loaded with an empty cache; Secrets Manager may give the
\* answers that fill, miss and refill the cache
InitCache ==
  /\ KeyIdle
  /\ MetaIdle
  /\ WrapIdle
  /\ UtilIdle
  /\ cachedStripeClient = Null
  /\ cachedSecretArn = Null
  /\ pending = {}
  /\ events = <<>>
  /\ settled = [k |-> "none"]
  /\ secretsManager = [secretArn \in ARNs |-> CacheAnswers(TagOf(secretArn))]
  /\ callsLeft = MaxCacheCalls

\* the same, with Secrets Manager giving every answer
InitSecret ==
  /\ KeyIdle
  /\ MetaIdle
  /\ WrapIdle
  /\ UtilIdle
  /\ cachedStripeClient = Null
  /\ cachedSecretArn = Null
  /\ pending = {}
  /\ events = <<>>
  /\ settled = [k |-> "none"]
  /\ secretsManager = [secretArn \in ARNs |-> SecretAnswers(TagOf(secretArn))]
  /\ callsLeft = MaxSecretCalls

\* the calls begun and the clients built so far
Begun == Cardinality({i \in 1..Len(events) : events[i].k \in {"hit",
    "fetch"}})
BuiltSoFar == Cardinality({i \in 1..Len(events) : events[i].k = "built"})

\* a caller calls getInstance(secretArn): it returns the cached client, or
\* sends the request for the secret and is suspended
GetInstance ==
  /\ callsLeft > 0
  /\ callsLeft' = callsLeft - 1
  /\ \E secretArn \in ARNs :
       LET call == Begun + 1
           begun == getInstance(secretArn)
       IN IF begun.hit
          THEN /\ events' = Append(events, [k |-> "hit", call |-> call,
                                            arn |-> secretArn,
                                            client |-> begun.client.id])
               /\ settled' = [k |-> "returned", call |-> call,
                              arn |-> secretArn, client |-> begun.client]
               /\ UNCHANGED pending
          ELSE /\ events' = Append(events, [k |-> "fetch", call |-> call,
                                            arn |-> secretArn])
               /\ pending' = pending \cup {[call |-> call, arn |-> secretArn]}
               /\ UNCHANGED settled
  /\ UNCHANGED <<cachedStripeClient, cachedSecretArn, secretsManager>>
  /\ UNCHANGED <<keyVars, metaVars, wrapVars, utilVars>>

\* a suspended call runs from the answer to its end
Resume(p, response, done) ==
  /\ pending' = pending \ {p}
  /\ cachedStripeClient' = done.cachedStripeClient
  /\ cachedSecretArn' = done.cachedSecretArn
  /\ IF done.ok
     THEN /\ events' = Append(events, [k |-> "built", call |-> p.call,
                                       arn |-> p.arn,
                                       client |-> done.client.id])
          /\ settled' = [k |-> "returned", call |-> p.call, arn |-> p.arn,
                         response |-> response, client |-> done.client]
     ELSE /\ events' = Append(events, [k |-> "failed", call |-> p.call,
                                       arn |-> p.arn])
          /\ settled' = [k |-> "threw", call |-> p.call, arn |-> p.arn,
                         response |-> response, error |-> done.error]
  /\ UNCHANGED <<secretsManager, callsLeft>>
  /\ UNCHANGED <<keyVars, metaVars, wrapVars, utilVars>>

\* Secrets Manager answers a suspended call, which runs to its end: it
\* caches and returns a new client, or throws
ResumeGetInstance ==
  \E p \in pending : \E response \in secretsManager[p.arn] :
    Resume(p, response, getInstanceResumed(p.arn, response, BuiltSoFar + 1))

\* a caller calls clearCache()
ClearCache ==
  /\ callsLeft > 0
  /\ callsLeft' = callsLeft - 1
  /\ cachedStripeClient' = clearCache.cachedStripeClient
  /\ cachedSecretArn' = clearCache.cachedSecretArn
  /\ events' = Append(events, [k |-> "clear"])
  /\ UNCHANGED <<pending, settled, secretsManager>>
  /\ UNCHANGED <<keyVars, metaVars, wrapVars, utilVars>>

NextCache == GetInstance \/ ResumeGetInstance \/ ClearCache

SpecCache == InitCache /\ [][NextCache]_vars

SpecSecret == InitSecret /\ [][NextCache]_vars

(***************************************************************************)
(* cdk/StripeSecretConstruct: the secret a deployment creates              *)
(***************************************************************************)
\* generateSecretString, as Secrets Manager documents it: the service adds a
\* string it generates to the JSON object of the template, as a member named
\* generateStringKey; generated is what the service chooses, the string and
\* whether the member is written before or after those of the template
GenerateSecretString(secretStringTemplate, generateStringKey, generated) ==
  LET member == QuoteJSONString(generateStringKey) \o <<":">>
                \o QuoteJSONString(generated.string)
      members == SubSeq(secretStringTemplate, 2,
                        Len(secretStringTemplate) - 1)
  IN Str(IF generated.first
         THEN <<"{">> \o member \o <<",">> \o members \o <<"}">>
         ELSE <<"{">> \o members \o <<",">> \o member \o <<"}">>)

\* a construct whose generated string is stored under apiKey
StripeSecretConstructGeneratingApiKey(props, generated) ==
  IF Truthy(PropOf(props, <<"e", "x", "i", "s", "t", "i", "n", "g", "S",
      "e", "c", "r", "e", "t", "A", "r", "n">>))
  THEN [created |-> FALSE, secretArn |-> PropOf(props, <<"e", "x", "i", "s",
      "t", "i", "n", "g", "S", "e", "c", "r", "e", "t", "A", "r", "n">>)]
  ELSE IF Truthy(PropOf(props, <<"s", "e", "c", "r", "e", "t", "V", "a",
      "l", "u", "e">>))
  THEN [created |-> TRUE, SecretString |-> PropOf(props, <<"s", "e", "c",
      "r", "e", "t", "V", "a", "l", "u", "e">>)]
  ELSE [created |-> TRUE,
        SecretString |->
          GenerateSecretString(
            SerializeJSON(Obj(<< <<<<"a", "p", "i", "K", "e",
                "y">>, Str(<<"P", "L", "A", "C", "E", "H", "O", "L", "D",
                "E", "R">>)>> >>)),
            <<"a", "p", "i", "K", "e", "y">>, generated)]

\* the constructor: an existing secret is referred to; otherwise a secret is
\* created, holding secretValue or, without one, the placeholder object and
\* a generated string
StripeSecretConstruct(props, generated) ==
  IF Truthy(PropOf(props, <<"e", "x", "i", "s", "t", "i", "n", "g", "S",
      "e", "c", "r", "e", "t", "A", "r", "n">>))
  THEN [created |-> FALSE, secretArn |-> PropOf(props, <<"e", "x", "i", "s",
      "t", "i", "n", "g", "S", "e", "c", "r", "e", "t", "A", "r", "n">>)]
  ELSE IF Truthy(PropOf(props, <<"s", "e", "c", "r", "e", "t", "V", "a",
      "l", "u", "e">>))
  THEN [created |-> TRUE, SecretString |-> PropOf(props, <<"s", "e", "c",
      "r", "e", "t", "V", "a", "l", "u", "e">>)]
  ELSE [created |-> TRUE,
        SecretString |->
          GenerateSecretString(
            SerializeJSON(Obj(<< <<<<"a", "p", "i", "K", "e",
                "y">>, Str(<<"P", "L", "A", "C", "E", "H", "O", "L", "D",
                "E", "R">>)>> >>)),
            <<"p", "l", "a", "c", "e", "h", "o", "l", "d", "e",
                "r">>, generated)]

(***************************************************************************)
(* Inputs of StripeSecretConstruct                                         *)
(***************************************************************************)
\* no props, a key given for development, an empty one, an existing secret
ConstructProps ==
  {Obj(<<>>),
   Obj(<< <<<<"s", "e", "c", "r", "e", "t", "V", "a", "l", "u",
       "e">>, Str(<<"s", "k", "_", "1">>)>> >>),
   Obj(<< <<<<"s", "e", "c", "r", "e", "t", "V", "a", "l", "u",
       "e">>, Str(<<>>)>> >>),
   Obj(<< <<<<"e", "x", "i", "s", "t", "i", "n", "g", "S", "e", "c", "r",
       "e", "t", "A", "r", "n">>, ArnOf("b")>> >>)}

\* the strings Secrets Manager may generate (one that looks like a key, one
\* that JSON must escape), and where it may write them
GeneratedStrings == {<<"s", "k", "_", "9">>, <<"q", "\"", "\\">>}
Generations == [string : GeneratedStrings, first : BOOLEAN]

\* the secrets a deployment may create
DeployedSecrets ==
  {StripeSecretConstruct(props, generated).SecretString :
     <<props, generated>> \in
        {pg \in ConstructProps \X Generations :
           StripeSecretConstruct(pg[1], pg[2]).created}}

(***************************************************************************)
(* State machine of a deployment: every ARN names a secret the construct   *)
(* created; callers use the cached client, and an operator may store the   *)
(* real key in a secret.                                                   *)
(***************************************************************************)
InitConstruct ==
  /\ KeyIdle
  /\ MetaIdle
  /\ WrapIdle
  /\ UtilIdle
  /\ cachedStripeClient = Null
  /\ cachedSecretArn = Null
  /\ pending = {}
  /\ events = <<>>
  /\ settled = [k |-> "none"]
  /\ secretsManager \in [ARNs -> {{Resolved(s)} : s \in DeployedSecrets}]
  /\ callsLeft = MaxCacheCalls

\* the operator overwrites the secret of an ARN with the real key
PutSecretValue ==
  /\ \E secretArn \in ARNs :
       /\ secretsManager[secretArn] # {Resolved(Credential(TagOf(secretArn)))}
       /\ secretsManager' =
            [secretsManager EXCEPT
               ![secretArn] = {Resolved(Credential(TagOf(secretArn)))}]
  /\ UNCHANGED <<cachedStripeClient, cachedSecretArn, pending, events,
                 settled, callsLeft>>
  /\ UNCHANGED <<keyVars, metaVars, wrapVars, utilVars>>

NextConstruct == GetInstance \/ ResumeGetInstance \/ ClearCache \/
    PutSecretValue

SpecConstruct == InitConstruct /\ [][NextConstruct]_vars

(***************************************************************************)
(* Relations between params objects                                       *)
(***************************************************************************)
IsLeaf(v) == v.t \notin {"array", "object"}

\* p and q hold the same key/value pairs at every nesting level, whatever the
\* order their properties were inserted in
RECURSIVE SameUpToOrder(_, _)
SameUpToOrder(p, q) ==
  IF p.t = "array" /\ q.t = "array"
  THEN /\ Len(p.items) = Len(q.items)
       /\ \A i \in 1..Len(p.items) : SameUpToOrder(p.items[i], q.items[i])
  ELSE IF p.t = "object" /\ q.t = "object"
  THEN /\ Len(p.props) = Len(q.props)
       /\ \A i \in 1..Len(p.props) :
            /\ HasOwn(q.props, p.props[i][1])
            /\ SameUpToOrder(p.props[i][2], ObjGet(q.props, p.props[i][1]))
  ELSE p = q

\* q is p with the value of exactly one leaf changed
RECURSIVE LeafChanged(_, _)
LeafChanged(p, q) ==
  IF IsLeaf(p) /\ IsLeaf(q)
  THEN p # q
  ELSE IF p.t = "array" /\ q.t = "array" /\ Len(p.items) = Len(q.items)
  THEN \E i \in 1..Len(p.items) :
         /\ LeafChanged(p.items[i], q.items[i])
         /\ \A k \in 1..Len(p.items) : k # i => p.items[k] = q.items[k]
  ELSE IF p.t = "object" /\ q.t = "object"
          /\ ObjectKeys(p.props) = ObjectKeys(q.props)
  THEN \E i \in 1..Len(p.props) :
         /\ LeafChanged(p.props[i][2], q.props[i][2])
         /\ \A k \in 1..Len(p.props) : k # i => p.props[k][2] = q.props[k][2]
  ELSE FALSE

\* t holds the elements of s, each as often as s does
IsPermutation(s, t) ==
  /\ Len(s) = Len(t)
  /\ \A i \in 1..Len(s) :
       Cardinality({k \in 1..Len(s) : s[k] = s[i]})
         = Cardinality({k \in 1..Len(t) : t[k] = s[i]})

\* q is p with the elements of one sequence reordered so that the sequence
\* differs
RECURSIVE Reordered(_, _)
Reordered(p, q) ==
  IF p.t = "array" /\ q.t = "array"
  THEN /\ IsPermutation(p.items, q.items)
       /\ ~SameUpToOrder(p, q)
  ELSE IF p.t = "object" /\ q.t = "object"
          /\ ObjectKeys(p.props) = ObjectKeys(q.props)
  THEN \E i \in 1..Len(p.props) :
         /\ Reordered(p.props[i][2], q.props[i][2])
         /\ \A k \in 1..Len(p.props) : k # i => p.props[k][2] = q.props[k][2]
  ELSE FALSE

(***************************************************************************)
(* Properties of the wrappers                                              *)
(***************************************************************************)
\* the idempotency key a provider request carries
KeyOf(request) ==
  IF request.options.t = "object"
  THEN PropOf(request.options, <<"i", "d", "e", "m", "p", "o", "t", "e", "n",
                                 "c", "y", "K", "e", "y">>)
  ELSE Undefined

\* the call did not supply an idempotency key of its own
NoCustomKey(call) == PropOf(call.params, <<"i", "d", "e", "m", "p", "o",
    "t", "e", "n", "c", "y", "K", "e", "y">>) = Undefined

\* C2: any two provider requests sent by invocations of the same wrapper
\* with the same params (the same key/value pairs at every level, in
\* whatever order they were inserted) and no custom idempotencyKey carry
\* the same idempotency key.
C2_SameKeyAcrossRetries ==
  \A j \in 1..Len(requests) : \A i \in 1..(j - 1) :
    LET first == calls[requests[i].call]
        second == calls[requests[j].call]
    IN (/\ first.wrapper = second.wrapper
        /\ NoCustomKey(first)
        /\ NoCustomKey(second)
        /\ SameUpToOrder(first.params, second.params))
       => KeyOf(requests[i]) = KeyOf(requests[j])

\* C2 witness: after a request had failed the wrapper was invoked again for
\* the same params, built anew with the properties in another order, no
\* custom key was given, and both requests carry one key.
C2_Witness ==
  /\ Len(calls) = 2
  /\ Len(requests) = 2
  /\ calls[1].outcome.t = "threw"
  /\ calls[1].wrapper = calls[2].wrapper
  /\ calls[1].params # calls[2].params
  /\ SameUpToOrder(calls[1].params, calls[2].params)
  /\ NoCustomKey(calls[1])
  /\ KeyOf(requests[1]).t = "string"
  /\ KeyOf(requests[1]) = KeyOf(requests[2])

\* the wrappers that derive an idempotency key, with the tag each derives
\* it from
KeyedWrappers ==
  {"createCoupon", "createPromotionCode", "creditCustomerBalance",
   "debitCustomerBalance"}
OperationTag(wrapper) ==
  CASE wrapper = "createCoupon" -> <<"c", "o", "u", "p", "o", "n">>
    [] wrapper = "createPromotionCode" -> <<"p", "r", "o", "m", "o">>
    [] wrapper = "creditCustomerBalance" -> <<"b", "a", "l", "a", "n", "c",
        "e", "-", "c", "r", "e", "d", "i", "t">>
    [] wrapper = "debitCustomerBalance" -> <<"b", "a", "l", "a", "n", "c",
        "e", "-", "d", "e", "b", "i", "t">>

\* the idempotencyKey of the call's params, undefined when there is none
CustomKey(call) == PropOf(call.params, <<"i", "d", "e", "m", "p", "o", "t",
    "e", "n", "c", "y", "K", "e", "y">>)

\* the requests sent by the wrappers that derive a key
KeyedRequests ==
  {i \in 1..Len(requests) : calls[requests[i].call].wrapper \in KeyedWrappers}

\* generateIdempotencyKey(tag, params) with the tag of each wrapper, for
\* every params object the callers pass
DerivedKeys ==
  [wrapper \in KeyedWrappers |->
     [params \in CouponParams \cup PromotionCodeParams \cup CreditParams
                  \cup DebitParams |->
        Str(generateIdempotencyKey(OperationTag(wrapper), params))]]

\* C17 (as stated): a request of createCoupon, createPromotionCode,
\* creditCustomerBalance or debitCustomerBalance carries exactly
\* params.idempotencyKey when one is provided, and otherwise
\* generateIdempotencyKey(tag, params) with the wrapper's tag.
C17_CustomKeyWhenProvided ==
  \A i \in KeyedRequests :
    LET call == calls[requests[i].call]
    IN KeyOf(requests[i]) =
         IF CustomKey(call) # Undefined THEN CustomKey(call)
         ELSE DerivedKeys[call.wrapper][call.params]

\* C17 (amended): a request of createCoupon, createPromotionCode,
\* creditCustomerBalance or debitCustomerBalance carries exactly
\* params.idempotencyKey when one is provided and is not the empty string,
\* and otherwise generateIdempotencyKey(tag, params) with the wrapper's tag.
C17_CustomKeyWhenNonEmpty ==
  \A i \in KeyedRequests :
    LET call == calls[requests[i].call]
    IN KeyOf(requests[i]) =
         IF CustomKey(call) \notin {Undefined, Str(<<>>)} THEN CustomKey(call)
         ELSE DerivedKeys[call.wrapper][call.params]

\* C17 witness: one call gave a key of its own and its request carries it,
\* and a call of another wrapper gave the empty string and its request
\* carries the derived key.
C17_Witness ==
  /\ Len(requests) = 2
  /\ requests[1].call = 1
  /\ requests[2].call = 2
  /\ calls[1].wrapper = "debitCustomerBalance"
  /\ CustomKey(calls[1]) = RetryKey[2]
  /\ KeyOf(requests[1]) = RetryKey[2]
  /\ calls[2].wrapper = "createPromotionCode"
  /\ CustomKey(calls[2]) = Str(<<>>)
  /\ KeyOf(requests[2]).t = "string"
  /\ StartsWith(KeyOf(requests[2]).s, <<"p", "r", "o", "m", "o", "-">>)

\* the wrappers that change provider state
ChangingWrappers ==
  KeyedWrappers \cup {"deleteCoupon", "deactivatePromotionCode"}

\* C18: every request of an operation that changes provider state
\* (createCoupon, createPromotionCode, creditCustomerBalance,
\* debitCustomerBalance, deleteCoupon, deactivatePromotionCode) is sent with
\* an idempotency key.
C18_EveryChangeCarriesKey ==
  \A i \in 1..Len(requests) :
    calls[requests[i].call].wrapper \in ChangingWrappers =>
      /\ KeyOf(requests[i]).t = "string"
      /\ KeyOf(requests[i]).s # <<>>

\* the requests the call sent
RequestsOf(c) == {i \in 1..Len(requests) : requests[i].call = c}

\* the request was answered with a customer that has been deleted
DeletedCustomer(response) ==
  /\ "customer" \in DOMAIN response
  /\ PropOf(response.customer, <<"d", "e", "l", "e", "t", "e", "d">>)
       = Bool(TRUE)

\* C19: every invocation of a wrapper, of the eleven there are, sends at
\* most one provider request and then returns or throws: it waits only
\* while its request is unanswered, when the request fails the call has
\* thrown and nothing else is sent, when it succeeds the call has returned
\* (or, in getCustomerBalance for a deleted customer, thrown).
C19_AtMostOneRequest ==
  \A c \in 1..Len(calls) :
    /\ Cardinality(RequestsOf(c)) <= 1
    /\ calls[c].outcome.t = "awaiting" => RequestsOf(c) # {}
    /\ \A i \in RequestsOf(c) :
         calls[c].outcome.t =
           CASE requests[i].response = Unanswered -> "awaiting"
             [] requests[i].response.t = "ok" ->
                  IF DeletedCustomer(requests[i].response) THEN "threw"
                  ELSE "returned"
             [] OTHER -> "threw"

\* C19 witness: two calls of one wrapper with the same params waited
\* together; the provider answered the second and it returned, then failed
\* the first and it threw, and the one request of each is all that reached
\* the provider.
C19_Witness ==
  /\ Len(calls) = 2
  /\ calls[1].outcome.t = "threw"
  /\ RequestsOf(1) = {1}
  /\ requests[1].response.t = "error"
  /\ calls[2].wrapper = calls[1].wrapper
  /\ calls[2].params = calls[1].params
  /\ calls[2].outcome.t = "returned"
  /\ RequestsOf(2) = {2}
  /\ requests[2].response.t = "ok"

\* C20: when the request of createCoupon, createPromotionCode,
\* creditCustomerBalance or debitCustomerBalance fails with a provider
\* error, the wrapper throws a new Error whose message is "Stripe error: ",
\* the provider's message, and the provider's error type in parentheses;
\* when it fails with any other error the wrapper throws that error itself.
C20_ProviderErrorWrapped ==
  \A i \in KeyedRequests :
    LET call == calls[requests[i].call]
        error == requests[i].response
    IN error.t = "error" =>
         /\ call.outcome.t = "threw"
         /\ call.outcome.error =
              IF error.class = "StripeError"
              THEN [t |-> "error", class |-> "Error",
                    message |-> <<"S", "t", "r", "i", "p", "e", " ", "e",
                        "r", "r", "o", "r", ":",
                        " ">> \o error.message \o <<" ", "(">>
                                  \o error.type \o <<")">>]
              ELSE error

\* C20 witness: one call met a provider error and threw the new Error, the
\* next met a connection error and threw it unchanged.
C20_Witness ==
  /\ Len(requests) = 2
  /\ requests[1].call = 1
  /\ requests[2].call = 2
  /\ requests[1].response = StripeIdempotencyError
  /\ calls[1].outcome.t = "threw"
  /\ calls[1].outcome.error.message =
       <<"S", "t", "r", "i", "p", "e", " ", "e", "r", "r", "o", "r", ":",
           " ", "K", "e", "y", " ", "i", "n", " ", "u", "s", "e", " ", "(",
           "i", "d", "e", "m", "p", "o", "t", "e", "n", "c", "y", "_", "e",
           "r", "r", "o", "r", ")">>
  /\ requests[2].response = ConnectionError
  /\ calls[2].outcome.t = "threw"
  /\ calls[2].outcome.error = ConnectionError

\* the calls of the wrapper
CallsOf(wrapper) == {c \in 1..Len(calls) : calls[c].wrapper = wrapper}

Param(c, name) == PropOf(calls[c].params, name)

\* the call threw the Error with the message before any request was sent
Rejected_(c, message) ==
  /\ calls[c].outcome = [t |-> "threw", error |-> NewError(message)]
  /\ RequestsOf(c) = {}

\* the checks of createCoupon that come after those on the discount
LaterCouponChecks ==
  {<<"c", "u", "r", "r", "e", "n", "c", "y", " ", "i", "s", " ", "r", "e",
      "q", "u", "i", "r", "e", "d", " ", "w", "h", "e", "n", " ", "u", "s",
      "i", "n", "g", " ", "a", "m", "o", "u", "n", "t", "O", "f", "f">>,
   <<"d", "u", "r", "a", "t", "i", "o", "n", "I", "n", "M", "o", "n", "t",
       "h", "s", " ", "i", "s", " ", "r", "e", "q", "u", "i", "r", "e", "d",
       " ", "f", "o", "r", " ", "r", "e", "p", "e", "a", "t", "i", "n", "g",
       " ", "c", "o", "u", "p", "o", "n", "s">>}

\* createCoupon called with the two discounts given or not: with both or
\* neither it throws and sends nothing; with one it sends that field and not
\* the other, unless a later check throws
OneDiscount(c, percent, amount) ==
  IF percent = amount
  THEN calls[c].outcome.t = "threw" /\ RequestsOf(c) = {}
  ELSE \/ \E message \in LaterCouponChecks : Rejected_(c, message)
       \/ \E i \in RequestsOf(c) :
            LET body == requests[i].args[1]
            IN /\ HasOwn(body.props, <<"p", "e", "r", "c", "e", "n", "t",
                "_", "o", "f", "f">>) = percent
               /\ HasOwn(body.props, <<"a", "m", "o", "u", "n", "t", "_",
                   "o", "f", "f">>) = amount
               /\ percent => PropOf(body, <<"p", "e", "r", "c", "e", "n",
                   "t", "_", "o", "f", "f">>) = Param(c, <<"p", "e", "r",
                   "c", "e", "n", "t", "O", "f", "f">>)
               /\ amount => PropOf(body, <<"a", "m", "o", "u", "n", "t",
                   "_", "o", "f", "f">>) = Param(c, <<"a", "m", "o", "u",
                   "n", "t", "O", "f", "f">>)

\* C21 (as stated): createCoupon throws before any request when neither or
\* both of percentOff and amountOff are provided; when exactly one is
\* provided and the other checks pass, the request holds exactly that
\* discount field.
C21_ExactlyOneProvided ==
  \A c \in CallsOf("createCoupon") :
    OneDiscount(c, Param(c, <<"p", "e", "r", "c", "e", "n", "t", "O", "f",
        "f">>) # Undefined,
                   Param(c, <<"a", "m", "o", "u", "n", "t", "O", "f",
                       "f">>) # Undefined)

\* C21 (amended): createCoupon throws before any request when neither or
\* both of percentOff and amountOff are provided with a value other than 0;
\* when exactly one is, and the other checks pass, the request holds
\* exactly that discount field.
C21_ExactlyOneNonZero ==
  \A c \in CallsOf("createCoupon") :
    OneDiscount(c, Truthy(Param(c, <<"p", "e", "r", "c", "e", "n", "t", "O",
        "f", "f">>)),
                   Truthy(Param(c, <<"a", "m", "o", "u", "n", "t", "O", "f",
                       "f">>)))

\* C21 witness: a call with both discounts threw and sent nothing, and the
\* next, with amountOff alone, sent amount_off and no percent_off.
C21_Witness ==
  /\ Len(calls) = 2
  /\ calls[1].wrapper = "createCoupon"
  /\ Truthy(Param(1, <<"p", "e", "r", "c", "e", "n", "t", "O", "f", "f">>))
  /\ Truthy(Param(1, <<"a", "m", "o", "u", "n", "t", "O", "f", "f">>))
  /\ Rejected_(1, <<"C", "a", "n", "n", "o", "t", " ", "p", "r", "o", "v",
      "i", "d", "e", " ", "b", "o", "t", "h", " ", "p", "e", "r", "c", "e",
      "n", "t", "O", "f", "f", " ", "a", "n", "d", " ", "a", "m", "o", "u",
      "n", "t", "O", "f", "f">>)
  /\ calls[2].wrapper = "createCoupon"
  /\ Param(2, <<"p", "e", "r", "c", "e", "n", "t", "O", "f",
      "f">>) = Undefined
  /\ RequestsOf(2) = {1}
  /\ PropOf(requests[1].args[1], <<"a", "m", "o", "u", "n", "t", "_", "o",
      "f", "f">>) = Num(500)
  /\ ~HasOwn(requests[1].args[1].props, <<"p", "e", "r", "c", "e", "n", "t",
      "_", "o", "f", "f">>)

\* C22: a createCoupon call with amountOff and no currency (absent or
\* empty) throws 'currency is required when using amountOff' and sends no
\* request.
C22_CurrencyRequired ==
  \A c \in CallsOf("createCoupon") :
    (/\ Truthy(Param(c, <<"a", "m", "o", "u", "n", "t", "O", "f", "f">>))
     /\ ~Truthy(Param(c, <<"p", "e", "r", "c", "e", "n", "t", "O", "f",
         "f">>))
     /\ ~Truthy(Param(c, <<"c", "u", "r", "r", "e", "n", "c", "y">>)))
      => Rejected_(c, <<"c", "u", "r", "r", "e", "n", "c", "y", " ", "i",
          "s", " ", "r", "e", "q", "u", "i", "r", "e", "d", " ", "w", "h",
          "e", "n", " ", "u", "s", "i", "n", "g", " ", "a", "m", "o", "u",
          "n", "t", "O", "f", "f">>)

\* the currency a balance call names, 'usd' when it names none, in lower
\* case (the calls name usd and USD)
CurrencyNamed(c) ==
  IF Param(c, <<"c", "u", "r", "r", "e", "n", "c",
      "y">>) = Undefined \/ Param(c, <<"c", "u", "r", "r", "e", "n", "c",
      "y">>) = Str(<<"U", "S", "D">>)
  THEN Str(<<"u", "s", "d">>)
  ELSE Param(c, <<"c", "u", "r", "r", "e", "n", "c", "y">>)

\* the amount of the call is above 0: a positive number or Infinity
PositiveAmount(c) ==
  LET amount == Param(c, <<"a", "m", "o", "u", "n", "t">>)
  IN IF "n" \in DOMAIN amount THEN amount.n > 0
     ELSE amount.special = "Infinity"

\* the amount of the call with the sign: sign * amount, and -Infinity for
\* the Infinity a credit is given
SignedAmount(c, sign) ==
  LET amount == Param(c, <<"a", "m", "o", "u", "n", "t">>)
  IN IF "n" \in DOMAIN amount THEN Num(sign * amount.n)
     ELSE IF sign = 1 THEN PosInfinity
     ELSE NegInfinity

\* the amount and customerId of the call pass the checks
ValidBalanceParams(c) ==
  /\ PositiveAmount(c)
  /\ Param(c, <<"c", "u", "s", "t", "o", "m", "e", "r", "I",
      "d">>).t = "string"
  /\ Len(Param(c, <<"c", "u", "s", "t", "o", "m", "e", "r", "I",
      "d">>).s) >= 4
  /\ SubSeq(Param(c, <<"c", "u", "s", "t", "o", "m", "e", "r", "I",
      "d">>).s, 1, 4) = <<"c", "u", "s", "_">>

\* a balance call: with amount <= 0 or a customerId that does not start
\* with cus_ it throws and sends nothing; otherwise it sends one balance
\* transaction for the customer with the signed amount and the currency in
\* lower case, and a call that returns reports the amount as given
BalanceCall(c, sign) ==
  IF ~ValidBalanceParams(c)
  THEN calls[c].outcome.t = "threw" /\ RequestsOf(c) = {}
  ELSE \E i \in RequestsOf(c) :
         /\ RequestsOf(c) = {i}
         /\ requests[i].api = "customers.createBalanceTransaction"
         /\ requests[i].args[1] = Param(c, <<"c", "u", "s", "t", "o", "m",
             "e", "r", "I", "d">>)
         /\ PropOf(requests[i].args[2], <<"a", "m", "o", "u", "n", "t">>) =
              SignedAmount(c, sign)
         /\ PropOf(requests[i].args[2], <<"c", "u", "r", "r", "e", "n", "c",
             "y">>) = CurrencyNamed(c)
         /\ calls[c].outcome.t = "returned" =>
              /\ PropOf(calls[c].outcome.value, <<"a", "m", "o", "u", "n",
                  "t">>) = Param(c, <<"a", "m", "o", "u", "n", "t">>)
              /\ PropOf(calls[c].outcome.value, <<"c", "u", "r", "r", "e",
                  "n", "c", "y">>) = CurrencyNamed(c)

\* C23: creditCustomerBalance and debitCustomerBalance throw without a
\* provider request when amount <= 0 or customerId does not start with
\* cus_; otherwise credit sends a balance transaction of -amount and
\* reports the positive amount, and debit sends +amount, both with the
\* currency in lower case, 'usd' by default.
C23_SignedBalanceTransaction ==
  /\ \A c \in CallsOf("creditCustomerBalance") : BalanceCall(c, -1)
  /\ \A c \in CallsOf("debitCustomerBalance") : BalanceCall(c, 1)

\* C23 witness: a credit of 500 in USD was sent as -500 in usd and reported
\* as 500, and a debit of 500 in USD that followed was sent as 500 in usd.
C23_Witness ==
  /\ Len(calls) = 2
  /\ calls[1].wrapper = "creditCustomerBalance"
  /\ Param(1, <<"c", "u", "r", "r", "e", "n", "c", "y">>) = Str(<<"U", "S",
      "D">>)
  /\ RequestsOf(1) = {1}
  /\ PropOf(requests[1].args[2], <<"a", "m", "o", "u", "n", "t">>) = Num(-500)
  /\ PropOf(requests[1].args[2], <<"c", "u", "r", "r", "e", "n", "c", "y">>)
      = Str(<<"u", "s", "d">>)
  /\ calls[1].outcome.t = "returned"
  /\ PropOf(calls[1].outcome.value, <<"a", "m", "o", "u", "n", "t">>) =
      Num(500)
  /\ calls[2].wrapper = "debitCustomerBalance"
  /\ Param(2, <<"c", "u", "r", "r", "e", "n", "c", "y">>) = Str(<<"U", "S",
      "D">>)
  /\ RequestsOf(2) = {2}
  /\ PropOf(requests[2].args[2], <<"a", "m", "o", "u", "n", "t">>) = Num(500)
  /\ PropOf(requests[2].args[2], <<"c", "u", "r", "r", "e", "n", "c", "y">>)
      = Str(<<"u", "s", "d">>)

\* the calls of the wrappers that derive a key
KeyedCalls == {c \in 1..Len(calls) : calls[c].wrapper \in KeyedWrappers}

\* C27: for every provider error raised during createCoupon,
\* createPromotionCode, creditCustomerBalance or debitCustomerBalance, an
\* idempotency-key conflict included, the Error the wrapper throws has no
\* type, code or headers field, so isIdempotencyError is false and
\* extractIdempotencyKeyFromError is null on it.
C27_ThrownErrorUnclassifiable ==
  \A c \in KeyedCalls :
    /\ \A i \in RequestsOf(c) :
         (requests[i].response.t = "error"
            /\ requests[i].response.class = "StripeError") =>
           /\ calls[c].outcome.t = "threw"
           /\ DOMAIN calls[c].outcome.error
                \cap {"type", "code", "headers", "raw"} = {}
    /\ calls[c].outcome.t = "threw" =>
         /\ isIdempotencyError(ErrorObject(calls[c].outcome.error))
              = Bool(FALSE)
         /\ extractIdempotencyKeyFromError(
              ErrorObject(calls[c].outcome.error)) = Null

\* C27 witness: the provider raised an idempotency-key conflict, which the
\* helpers recognise and read the key from, and the error that
\* creditCustomerBalance threw is neither recognised nor holds the key.
C27_Witness ==
  /\ Len(calls) = 1
  /\ calls[1].wrapper = "creditCustomerBalance"
  /\ RequestsOf(1) = {1}
  /\ requests[1].response = StripeIdempotencyError
  /\ isIdempotencyError(ErrorObject(requests[1].response)) = Bool(TRUE)
  /\ extractIdempotencyKeyFromError(ErrorObject(requests[1].response))
       = Str(<<"k", "1">>)
  /\ calls[1].outcome.t = "threw"
  /\ isIdempotencyError(ErrorObject(calls[1].outcome.error)) = Bool(FALSE)
  /\ extractIdempotencyKeyFromError(ErrorObject(calls[1].outcome.error)) =
      Null

\* the fields a wrapper fills in or normalises when it builds the request
DefaultedFields == {<<"c", "u", "r", "r", "e", "n", "c", "y">>, <<"d", "e",
    "s", "c", "r", "i", "p", "t", "i", "o", "n">>, <<"d", "u", "r", "a",
    "t", "i", "o", "n">>}

\* the names of the properties of a params object
NamesIn(p) == {p.props[n][1] : n \in 1..Len(p.props)}

\* the two params objects differ, and only in defaulted fields
DiffersOnlyInDefaulted(p, q) ==
  /\ \E k \in DefaultedFields : PropOf(p, k) # PropOf(q, k)
  /\ \A k \in (NamesIn(p) \cup NamesIn(q)) \ DefaultedFields :
       PropOf(p, k) = PropOf(q, k)

\* C28: the generated key is derived from the caller's params as given,
\* before defaults and normalisation: two calls of one wrapper that send
\* identical request bodies but whose params differ only in a defaulted or
\* normalised field (currency omitted or usd, USD or usd, description
\* omitted or the default text) carry different idempotency keys.
C28_KeyFromRawParams ==
  \A i \in KeyedRequests : \A j \in KeyedRequests :
    (/\ calls[requests[i].call].wrapper = calls[requests[j].call].wrapper
     /\ requests[i].args = requests[j].args
     /\ NoCustomKey(calls[requests[i].call])
     /\ NoCustomKey(calls[requests[j].call])
     /\ DiffersOnlyInDefaulted(calls[requests[i].call].params,
                               calls[requests[j].call].params))
      => KeyOf(requests[i]) # KeyOf(requests[j])

\* C28 witness: a credit with neither currency nor description and one with
\* currency USD and the default description sent the same body under
\* different keys.
C28_Witness ==
  /\ Len(calls) = 2
  /\ calls[1].wrapper = "creditCustomerBalance"
  /\ calls[2].wrapper = "creditCustomerBalance"
  /\ NamesIn(calls[1].params) = {<<"c", "u", "s", "t", "o", "m", "e", "r",
      "I", "d">>, <<"a", "m", "o", "u", "n", "t">>}
  /\ Param(2, <<"c", "u", "r", "r", "e", "n", "c", "y">>) = Str(<<"U", "S",
      "D">>)
  /\ Param(2, <<"d", "e", "s", "c", "r", "i", "p", "t", "i", "o",
      "n">>) = Str(<<"A", "c", "c", "o", "u", "n", "t", " ", "c", "r", "e",
      "d", "i", "t">>)
  /\ Len(requests) = 2
  /\ requests[1].args = requests[2].args
  /\ KeyOf(requests[1]) # KeyOf(requests[2])
  /\ KeyOf(requests[1]).t = "string"
  /\ KeyOf(requests[2]).t = "string"

(***************************************************************************)
(* Properties of generateIdempotencyKey                                    *)
(***************************************************************************)
\* C1: for every operation tag, two params structures that hold the same
\* key/value pairs at every nesting level, built in different property
\* insertion orders, get the same key.
C1_InsertionOrderIrrelevant ==
  (kpc = "done" /\ SameUpToOrder(params1, params2)) => key1 = key2

\* C1 witness: two sequences of mappings that differ only in the insertion
\* order of a mapping's properties have got one key.
C1_Witness ==
  /\ kpc = "done"
  /\ params1.t = "array"
  /\ params1 # params2
  /\ SameUpToOrder(params1, params2)
  /\ key1 = key2

\* C3: changing any single leaf value anywhere in a params structure
\* (inside a nested mapping included) changes the key.
C3_AnyLeafChangeChangesKey ==
  (kpc = "done" /\ ~IsLeaf(params1) /\ LeafChanged(params1, params2))
    => key1 # key2

\* sortObjectKeys keeps a sequence's length and every element's position
PositionsKept(p) ==
  p.t = "array" =>
    LET c == sortObjectKeys(p)
    IN /\ c.t = "array"
       /\ Len(c.items) = Len(p.items)
       /\ \A i \in 1..Len(p.items) : SameUpToOrder(c.items[i], p.items[i])

\* C4: reordering the elements of a sequence in params, so that the
\* sequence differs, changes the key; canonicalization keeps the sequence's
\* length and element positions.
C4_AnyReorderChangesKey ==
  kpc = "done" =>
    /\ Reordered(params1, params2) => key1 # key2
    /\ PositionsKept(params1)

\* C5 as claimed: for every operation tag and params value the key has at
\* most 255 characters.
C5_KeyAtMost255 ==
  kpc = "done" => Len(key1) <= 255 /\ Len(key2) <= 255

\* C5 as amended: the key is the operation tag, a hyphen and 32 hex digits,
\* so it has at most 255 characters for every operation tag of at most 222
\* characters.
C5_KeyLength ==
  kpc = "done" =>
    /\ Len(key1) = Len(operation) + 33
    /\ Len(key2) = Len(operation) + 33
    /\ Len(operation) <= 222 => (Len(key1) <= 255 /\ Len(key2) <= 255)

\* C5 witness: an operation tag of 222 characters has got a key of 255.
C5_Witness ==
  /\ kpc = "done"
  /\ Len(operation) = 222
  /\ Len(key1) = 255

(***************************************************************************)
(* Properties of createMetadata                                            *)
(***************************************************************************)
\* createMetadata has returned a mapping
Sanitized == mpc \in {"once", "twice"}

\* the entries of a mapping whose value is neither undefined nor null
Present(md) == SelectSeq(md, LAMBDA e : e[2] # Undefined /\ e[2] # Null)

\* the first n characters of s, or s when it is shorter
Prefix(s, n) == SubSeq(s, 1, IF n < Len(s) THEN n ELSE Len(s))

IsPrefixOf(p, s) == Len(p) <= Len(s) /\ p = SubSeq(s, 1, Len(p))

\* the mapping holds string values only and respects the three limits
WithinLimits(md) ==
  /\ Len(md) <= 50
  /\ \A i \in 1..Len(md) :
       /\ md[i][2].t = "string"
       /\ Len(md[i][1]) <= 40
       /\ Len(md[i][2].s) <= 500

\* C6: for every input mapping, the mapping createMetadata returns has at
\* most 50 entries, every key at most 40 characters and every value at most
\* 500 characters, all three at once.
C6_AllLimitsHold ==
  Sanitized =>
    /\ Len(sanitized) <= 50
    /\ \A i \in 1..Len(sanitized) :
         /\ Len(sanitized[i][1]) <= 40
         /\ Len(sanitized[i][2].s) <= 500

\* C7: createMetadata drops every entry whose value is undefined or null and
\* turns every other value into its string representation: every output
\* value is a string, every output entry stems from an input entry whose
\* value is neither undefined nor null (its key and String(value), or
\* prefixes of them), and, when the count bound does not apply, every such
\* input entry has its key (or its 40-character prefix) in the output.
C7_AbsentDroppedOthersStringified ==
  Sanitized =>
    /\ \A j \in 1..Len(sanitized) :
         /\ sanitized[j][2].t = "string"
         /\ \E i \in 1..Len(metadata) :
              /\ metadata[i][2] # Undefined
              /\ metadata[i][2] # Null
              /\ IsPrefixOf(sanitized[j][1], metadata[i][1])
              /\ IsPrefixOf(sanitized[j][2].s, ToStringJS(metadata[i][2]))
    /\ Len(Present(metadata)) <= 50 =>
         \A i \in 1..Len(metadata) :
           (metadata[i][2] # Undefined /\ metadata[i][2] # Null) =>
             \E j \in 1..Len(sanitized) :
               sanitized[j][1] = Prefix(metadata[i][1], 40)

\* C8: when the filtered mapping (the entries whose value is neither
\* undefined nor null, each with its value as a string) has more than 50
\* entries, the output is exactly the first 50 of them in enumeration
\* order; with 50 or fewer, no entry is dropped by the count bound (each
\* one's key, cut to 40 characters, is in the output).
C8_FirstFiftyKept ==
  Sanitized =>
    LET filtered == StringifyDefined(metadata)
    IN IF Len(filtered) > 50
       THEN /\ Len(sanitized) = 50
            /\ \A j \in 1..50 :
                 sanitized[j] = filtered[j]
       ELSE \A i \in 1..Len(filtered) :
              \E j \in 1..Len(sanitized) :
                sanitized[j][1] = Prefix(filtered[i][1], 40)

\* C8 witness: a mapping with 60 entries, none absent, yields 50 entries.
C8_Witness ==
  /\ mpc = "once"
  /\ Len(metadata) >= 60
  /\ Len(Present(metadata)) = Len(metadata)
  /\ Len(sanitized) = 50

\* C9: for each entry that survives the count bound, the output holds the
\* key cut to its first 40 characters with the value cut to its first 500
\* characters.  Stated for the entries whose cut key is shared by no other
\* surviving entry (two entries with one cut key leave a single output entry).
C9_SurvivorsTruncated ==
  Sanitized =>
    LET present == Present(metadata)
        n == IF Len(present) > 50 THEN 50 ELSE Len(present)
    IN \A i \in 1..n :
         (\A k \in 1..n : k # i => Prefix(present[k][1], 40) # Prefix(present[i][1], 40))
         => \E j \in 1..Len(sanitized) :
              sanitized[j] = << Prefix(present[i][1], 40),
                                Str(Prefix(ToStringJS(present[i][2]), 500)) >>

\* C10: for a mapping that already holds only strings and respects the three
\* limits, createMetadata returns the mapping itself, and applying it again
\* changes nothing.
C10_IdempotentOnBounded ==
  (mpc = "twice" /\ WithinLimits(metadata)) =>
    /\ sanitized = metadata
    /\ resanitized = sanitized

\* the entries of the filtered input whose key has the same first 40
\* characters as the i-th
SharingWith(present, i) ==
  {k \in 1..Len(present) :
     Prefix(present[k][1], 40) = Prefix(present[i][1], 40)}

\* the positions of the output that hold key
HoldersOf(key) == {j \in 1..Len(sanitized) : sanitized[j][1] = key}

\* the greatest member of a non-empty set of positions
Latest(S) == CHOOSE k \in S : \A m \in S : m <= k

\* C29: when the input of createMetadata has at most 50 entries and two
\* distinct keys that survive the filter share their first 40 characters,
\* the output holds a single entry under the truncated key, with the value
\* of the key enumerated later (as a string of at most 500 characters); the
\* output has fewer entries than the filtered input and its keys are
\* unique.
C29_CollidingKeysLastWins ==
  (Sanitized /\ Len(metadata) <= 50) =>
    /\ \A j, m \in 1..Len(sanitized) :
         j # m => sanitized[j][1] # sanitized[m][1]
    /\ \A i \in 1..Len(Present(metadata)) :
         Cardinality(SharingWith(Present(metadata), i)) > 1 =>
           /\ Len(sanitized) < Len(Present(metadata))
           /\ Cardinality(HoldersOf(Prefix(Present(metadata)[i][1], 40))) = 1
           /\ \A j \in HoldersOf(Prefix(Present(metadata)[i][1], 40)) :
                sanitized[j][2] =
                  Str(Prefix(ToStringJS(
                        Present(metadata)[
                          Latest(SharingWith(Present(metadata), i))][2]),
                      500))

\* C29 witness: a mapping of 50 entries, some of them absent, whose keys of
\* 41 characters fall into several groups with one truncated key each, was
\* sanitized into fewer entries than survived the filter.
C29_Witness ==
  /\ mpc = "once"
  /\ Len(metadata) = 50
  /\ Len(Present(metadata)) < 50
  /\ \A i \in 1..Len(metadata) : Len(metadata[i][1]) = 41
  /\ \E i \in 1..Len(Present(metadata)) :
       Cardinality(SharingWith(Present(metadata), i)) > 1
  /\ Len(sanitized) > 1
  /\ Len(sanitized) < Len(Present(metadata))

(***************************************************************************)
(* Properties of the metadata helpers                                      *)
(***************************************************************************)
\* the entries of the mappings among args, in argument order
RECURSIVE EntriesOf(_)
EntriesOf(args) ==
  IF args = <<>> THEN <<>>
  ELSE IF Len(args) = 1
  THEN (IF args[1].t = "object" THEN args[1].props ELSE <<>>)
  ELSE LET half == Len(args) \div 2
       IN EntriesOf(SubSeq(args, 1, half))
            \o EntriesOf(SubSeq(args, half + 1, Len(args)))

\* the value of the last of the entries under key k
LastValue(entries, k) ==
  LET last == CHOOSE i \in 1..Len(entries) :
                /\ entries[i][1] = k
                /\ \A j \in (i + 1)..Len(entries) : entries[j][1] # k
  IN entries[last][2]

\* each key once, in the order of its first entry, with the value of its
\* last entry
LastWins(args) ==
  LET entries == EntriesOf(args)
      firsts == {i \in 1..Len(entries) :
                   \A j \in 1..(i - 1) : entries[j][1] # entries[i][1]}
      nth(n) == CHOOSE i \in firsts : Cardinality({j \in firsts : j < i}) = n
          - 1
  IN [n \in 1..Cardinality(firsts) |->
        <<entries[nth(n)][1], LastValue(entries, entries[nth(n)][1])>>]

\* C11: mergeMetadata skips undefined arguments, gives every key the value
\* of the last mapping that holds it, and returns the merged mapping as
\* createMetadata sanitizes it; when the merged mapping is within the limits
\* the result holds exactly those keys and values.
C11_LaterMappingsOverride ==
  util.fn = "mergeMetadata" =>
    LET expected == LastWins(util.args)
    IN /\ util.result = createMetadata(expected)
       /\ WithinLimits(expected) =>
            /\ Len(util.result) = Len(expected)
            /\ \A i \in 1..Len(expected) :
                 /\ HasOwn(util.result, expected[i][1])
                 /\ ObjGet(util.result, expected[i][1]) = expected[i][2]

\* the value a mapping holds under key k, when it holds one that is neither
\* undefined nor null
Holds(md, k) ==
  /\ md.t = "object"
  /\ HasOwn(md.props, k)
  /\ ObjGet(md.props, k).t \notin {"undefined", "null"}

\* the primary and the alternate key of an extractor
PrimaryKey(fn) == IF fn = "extractTenantId" THEN <<"t", "e", "n", "a", "n",
    "t", "I", "d">> ELSE <<"u", "s", "e", "r", "I", "d">>
AlternateKey(fn) == IF fn = "extractTenantId" THEN <<"t", "e", "n", "a",
    "n", "t", "_", "i", "d">> ELSE <<"u", "s", "e", "r", "_", "i", "d">>

\* C12 as claimed: extractTenantId (extractUserId) returns the value under
\* the primary key when the mapping holds one, otherwise the value under the
\* alternate key when the mapping holds one, and otherwise null.
C12_PrimaryWhenPresent ==
  util.fn \in {"extractTenantId", "extractUserId"} =>
    LET md == util.args[1]
    IN util.result =
         IF Holds(md, PrimaryKey(util.fn)) THEN ObjGet(md.props,
             PrimaryKey(util.fn))
         ELSE IF Holds(md, AlternateKey(util.fn))
         THEN ObjGet(md.props, AlternateKey(util.fn))
         ELSE Null

\* the value a mapping holds under key k, when it holds a non-empty string
HoldsNonEmpty(md, k) ==
  /\ Holds(md, k)
  /\ ObjGet(md.props, k) # Str(<<>>)

\* C12 as amended: extractTenantId (extractUserId) returns the value under
\* the primary key when that value is a non-empty string, otherwise the
\* value under the alternate key when that value is a non-empty string, and
\* otherwise null, also for an absent or empty mapping.
C12_PrimaryWhenNonEmpty ==
  util.fn \in {"extractTenantId", "extractUserId"} =>
    LET md == util.args[1]
    IN util.result =
         IF HoldsNonEmpty(md, PrimaryKey(util.fn))
         THEN ObjGet(md.props, PrimaryKey(util.fn))
         ELSE IF HoldsNonEmpty(md, AlternateKey(util.fn))
         THEN ObjGet(md.props, AlternateKey(util.fn))
         ELSE Null

\* C12 witness: extractTenantId has returned the alternate spelling's value
\* for a mapping without the primary key.
C12_Witness ==
  /\ util.fn = "extractTenantId"
  /\ util.args[1].t = "object"
  /\ ~HasOwn(util.args[1].props, <<"t", "e", "n", "a", "n", "t", "I", "d">>)
  /\ util.result = Str(<<"t", "2">>)

\* the type and code of an inspected value, undefined when it has none
TypeOfError(e) == OptionalProp(e, <<"t", "y", "p", "e">>)
CodeOfError(e) == OptionalProp(e, <<"c", "o", "d", "e">>)

\* the type or the code names an idempotency conflict
NamesConflict(e) ==
  (TypeOfError(e) = Str(<<"i", "d", "e", "m", "p", "o", "t", "e", "n", "c",
      "y", "_", "e", "r", "r", "o", "r">>))
  \/ (CodeOfError(e) = Str(<<"i", "d", "e", "m", "p", "o", "t", "e", "n",
      "c", "y", "_", "k", "e", "y", "_", "i", "n", "_", "u", "s", "e">>))

\* C24 as stated: isIdempotencyError returns true exactly when the error's
\* type is idempotency_error or its code is idempotency_key_in_use, and
\* false for every other value; it never throws.
C24_TrueIffTypeOrCode ==
  util.fn = "isIdempotencyError" =>
    util.result = Bool(NamesConflict(util.args[1]))

\* C24 amended: isIdempotencyError returns true exactly when the error has a
\* truthy type and its type is idempotency_error or its code is
\* idempotency_key_in_use; it returns false for every other value, among
\* them null, undefined and an error with the code but no type, and never
\* throws.
C24_TrueIffTypedAndTypeOrCode ==
  util.fn = "isIdempotencyError" =>
    util.result = Bool(Truthy(TypeOfError(util.args[1]))
                       /\ NamesConflict(util.args[1]))

\* C24 witness: an error of another type with the code idempotency_key_in_use
\* was classified as an idempotency error.
C24_Witness ==
  /\ util.fn = "isIdempotencyError"
  /\ TypeOfError(util.args[1]) = Str(<<"c", "a", "r", "d", "_", "e", "r",
      "r", "o", "r">>)
  /\ CodeOfError(util.args[1]) = Str(<<"i", "d", "e", "m", "p", "o", "t",
      "e", "n", "c", "y", "_", "k", "e", "y", "_", "i", "n", "_", "u", "s",
      "e">>)
  /\ util.result = Bool(TRUE)

(***************************************************************************)
(* Properties of the cached client                                         *)
(***************************************************************************)
\* a call of getInstance begins: it returns from the cache or sends a fetch
IsBegin(e) == e.k \in {"hit", "fetch"}
\* a call of getInstance returns a client
IsSuccess(e) == e.k \in {"hit", "built"}
Between(i, j) == (i + 1)..(j - 1)
EventPairs == {ij \in (1..Len(events)) \X (1..Len(events)) : ij[1] < ij[2]}

\* C13 (as stated): once a getInstance(arn) has returned a client, every
\* getInstance(arn) called later returns that same client from the cache,
\* without a fetch, provided no clearCache and no successful getInstance
\* for a different ARN came in between.
C13_CachedUntilOtherArn ==
  \A ij \in EventPairs :
    LET first == events[ij[1]]
        later == events[ij[2]]
    IN (/\ IsSuccess(first)
        /\ IsBegin(later)
        /\ later.arn = first.arn
        /\ \A m \in Between(ij[1], ij[2]) :
             /\ events[m].k # "clear"
             /\ ~(IsSuccess(events[m]) /\ events[m].arn # first.arn))
       => (later.k = "hit" /\ later.client = first.client)

\* C13 (amended): once a getInstance(arn) has returned a client, every
\* getInstance(arn) called later returns that same client from the cache,
\* without a fetch, provided no clearCache came in between and no
\* getInstance, for any ARN, built a new client in between.
C13_CachedUntilRebuilt ==
  \A ij \in EventPairs :
    LET first == events[ij[1]]
        later == events[ij[2]]
    IN (/\ IsSuccess(first)
        /\ IsBegin(later)
        /\ later.arn = first.arn
        /\ \A m \in Between(ij[1], ij[2]) : events[m].k \notin {"clear",
            "built"})
       => (later.k = "hit" /\ later.client = first.client)

\* C13 witness: a call fetched the secret and built a client; after a failed
\* call for the other ARN, a later call for the same ARN got that client
\* from the cache.
C13_Witness ==
  \E ij \in EventPairs :
    /\ events[ij[1]].k = "built"
    /\ events[ij[2]].k = "hit"
    /\ events[ij[2]].arn = events[ij[1]].arn
    /\ events[ij[2]].client = events[ij[1]].client
    /\ \E m \in Between(ij[1], ij[2]) :
         events[m].k = "failed" /\ events[m].arn # events[ij[1]].arn
    /\ \A m \in Between(ij[1], ij[2]) : events[m].k \notin {"clear", "built"}

\* the latest client built, as <<arn, client id>>, or none
LastBuilt ==
  LET built == {i \in 1..Len(events) : events[i].k = "built"}
  IN IF built = {} THEN <<>>
     ELSE LET i == CHOOSE i \in built : \A m \in built : m <= i
          IN <<events[i].arn, events[i].client>>

\* C14: the cache holds one pair or nothing: the two fields are set
\* together, and what is cached is the latest client built with the ARN it
\* was built for.  So once a client was returned for A and a client was then
\* built for another ARN, a getInstance(A) called before any new client is
\* built for A fetches the secret again.
C14_OnePairReplacedWholesale ==
  /\ (cachedStripeClient = Null) <=> (cachedSecretArn = Null)
  /\ cachedStripeClient # Null =>
       LastBuilt = <<cachedSecretArn, cachedStripeClient.id>>
  /\ \A ij \in EventPairs :
       LET first == events[ij[1]]
           later == events[ij[2]]
       IN (/\ IsSuccess(first)
           /\ IsBegin(later)
           /\ later.arn = first.arn
           /\ \E m \in Between(ij[1], ij[2]) :
                events[m].k = "built" /\ events[m].arn # first.arn
           /\ \A m \in Between(ij[1], ij[2]) :
                ~(events[m].k = "built" /\ events[m].arn = first.arn))
          => later.k = "fetch"

\* C14 witness: a client was built for A, then one for B, and the next
\* getInstance(A) fetched the secret of A again, with the client of B cached.
C14_Witness ==
  /\ Len(events) = 5
  /\ events[2].k = "built"
  /\ events[4].k = "built"
  /\ events[4].arn # events[2].arn
  /\ events[5].k = "fetch"
  /\ events[5].arn = events[2].arn
  /\ cachedSecretArn = events[4].arn
  /\ cachedStripeClient.id = events[4].client

\* the clients built before event i
BuiltBefore(i) == {events[m].client : m \in {n \in 1..(i - 1) : events[n].k =
    "built"}}

\* the call begun at event j fetched, and any client it went on to build is
\* a new one
FetchesAnew(j) ==
  /\ events[j].k = "fetch"
  /\ \A n \in (j + 1)..Len(events) :
       (events[n].k = "built" /\ events[n].call = events[j].call)
         => events[n].client \notin BuiltBefore(j)

\* the next call of getInstance after event i, if any, is event j
NextCallAfter(i, j) ==
  /\ i < j
  /\ IsBegin(events[j])
  /\ \A m \in Between(i, j) : ~IsBegin(events[m])

\* C15 (as stated): when clearCache returns both cache fields are empty, and
\* the next getInstance, whatever its ARN, fetches the secret and builds a
\* new client.
C15_NextCallFetches ==
  /\ (events # <<>> /\ events[Len(events)].k = "clear") =>
       (cachedStripeClient = Null /\ cachedSecretArn = Null)
  /\ \A ij \in EventPairs :
       (events[ij[1]].k = "clear" /\ NextCallAfter(ij[1], ij[2]))
         => FetchesAnew(ij[2])

\* C15 (amended): when clearCache returns both cache fields are empty, and
\* the next getInstance, whatever its ARN, fetches the secret and builds a
\* new client, unless a getInstance that was awaiting its secret when
\* clearCache ran has built and cached a client in between.
C15_NextCallFetchesUnlessRefilled ==
  /\ (events # <<>> /\ events[Len(events)].k = "clear") =>
       (cachedStripeClient = Null /\ cachedSecretArn = Null)
  /\ \A ij \in EventPairs :
       (/\ events[ij[1]].k = "clear"
        /\ NextCallAfter(ij[1], ij[2])
        /\ \A m \in Between(ij[1], ij[2]) : events[m].k # "built")
         => FetchesAnew(ij[2])

\* C15 witness: a client was cached for an ARN, clearCache ran, and the next
\* getInstance for that ARN fetched the secret and built a second client.
C15_Witness ==
  /\ Len(events) = 5
  /\ events[2].k = "built"
  /\ events[3].k = "clear"
  /\ events[4].k = "fetch"
  /\ events[4].arn = events[2].arn
  /\ events[5].k = "built"
  /\ events[5].client # events[2].client
  /\ cachedStripeClient.id = events[5].client

\* the names a JSON secret may hold the credential under, in lookup order
KeyNames == <<<<"a", "p", "i", "K", "e", "y">>, <<"S", "T", "R", "I", "P",
    "E", "_", "S", "E", "C", "R", "E", "T", "_", "K", "E", "Y">>, <<"k", "e",
    "y">>>>

\* the secret behind an answer of Secrets Manager for the ARN
SecretBehind(secretArn, SecretString) ==
  CHOOSE secret \in Secrets(TagOf(secretArn)) :
    SecretStringOf(secret) = SecretString

\* the names of KeyNames under which the entries hold a non-empty value
HeldNames(entries) ==
  {n \in 1..Len(KeyNames) :
     \E i \in 1..Len(entries) :
       /\ entries[i][1] = KeyNames[n]
       /\ entries[i][2] \notin {Str(<<>>), Null}}

\* the value the entries hold under the name
ValueUnder(entries, name) ==
  entries[CHOOSE i \in 1..Len(entries) : entries[i][1] = name][2]

\* the credential of a secret: of a JSON object, the value under the first
\* of the names that holds a non-empty one (none if no name does); of a
\* non-empty plain text, the text itself; of any other secret, none
CredentialOf(secret) ==
  IF secret.kind = "plain"
  THEN (IF secret.text = <<>> THEN <<>> ELSE <<Str(secret.text)>>)
  ELSE IF secret.kind = "object" /\ HeldNames(secret.entries) # {}
  THEN <<ValueUnder(secret.entries,
                    KeyNames[CHOOSE n \in HeldNames(secret.entries) :
                               \A m \in HeldNames(secret.entries) : n <= m])>>
  ELSE <<>>

\* the secret holds a credential that starts with sk_
Acceptable(secret) ==
  /\ CredentialOf(secret) # <<>>
  /\ CredentialOf(secret)[1].t = "string"
  /\ IsPrefixOf(<<"s", "k", "_">>, CredentialOf(secret)[1].s)

\* C16: a getInstance that fetched the secret returns a client exactly when
\* the secret is a plain string, or a JSON object holding a credential under
\* apiKey, STRIPE_SECRET_KEY or key (looked up in that order), and the
\* credential starts with sk_; the client is built with that credential.  In
\* every other case, a failed fetch included, it throws an Error whose
\* message starts with "Failed to fetch Stripe API key: ".
C16_ClientOnlyForSecretKey ==
  (settled.k # "none" /\ "response" \in DOMAIN settled) =>
    IF /\ settled.response.t = "resolved"
       /\ Acceptable(SecretBehind(settled.arn,
                                  settled.response.SecretString))
    THEN /\ settled.k = "returned"
         /\ settled.client.apiKey =
              CredentialOf(SecretBehind(settled.arn,
                                        settled.response.SecretString))[1]
    ELSE /\ settled.k = "threw"
         /\ settled.error.class = "Error"
         /\ IsPrefixOf(FailedToFetch, settled.error.message)

\* C16 witness: the secret held a different sk_ credential under each of
\* the three names, and the client was built with the one under apiKey,
\* after a call for the other ARN had thrown on a text that is not JSON and
\* lacks the prefix.
C16_Witness ==
  /\ settled.k = "returned"
  /\ "response" \in DOMAIN settled
  /\ settled.response.t = "resolved"
  /\ LET secret == SecretBehind(settled.arn, settled.response.SecretString)
     IN /\ secret.kind = "object"
        /\ \A n \in 1..Len(KeyNames) :
             \E i \in 1..Len(secret.entries) :
               secret.entries[i][1] = KeyNames[n]
        /\ settled.client.apiKey = ValueUnder(secret.entries, KeyNames[1])
        /\ settled.client.apiKey # ValueUnder(secret.entries, KeyNames[3])
  /\ Len(events) = 4
  /\ events[2].k = "failed"

\* the events at which a client was built for the ARN
BuiltFor(secretArn) ==
  {i \in 1..Len(events) : events[i].k = "built" /\ events[i].arn = secretArn}

\* C25: under every interleaving of getInstance calls, each suspended while
\* its secret is fetched, and clearCache calls, a getInstance(arn) that
\* returns gives a client that was built for that ARN from the secret
\* fetched for it, never a client built for another ARN; the two cache
\* fields are updated together, so the cached client belongs to the cached
\* ARN.
C25_ClientOfOwnArn ==
  /\ settled.k = "returned" =>
       /\ settled.client.apiKey = Credential(TagOf(settled.arn))
       /\ \E i \in BuiltFor(settled.arn) : events[i].client =
           settled.client.id
  /\ (cachedStripeClient = Null) <=> (cachedSecretArn = Null)
  /\ cachedStripeClient # Null =>
       /\ cachedStripeClient.apiKey = Credential(TagOf(cachedSecretArn))
       /\ \E i \in BuiltFor(cachedSecretArn) :
            events[i].client = cachedStripeClient.id

\* C25 witness: two calls for different ARNs were both awaiting their
\* secrets; the first built its client, then the second did, and a third
\* call for the ARN of the second got the client built from that ARN's
\* secret out of the cache.
C25_Witness ==
  /\ Len(events) = 5
  /\ events[1].k = "fetch"
  /\ events[2].k = "fetch"
  /\ events[2].arn # events[1].arn
  /\ events[3].k = "built" /\ events[3].call = 1
  /\ events[4].k = "built" /\ events[4].call = 2
  /\ events[5].k = "hit"
  /\ events[5].arn = events[2].arn
  /\ events[5].client = events[4].client
  /\ settled.k = "returned"
  /\ settled.client.apiKey = Credential(TagOf(events[2].arn))

\* a step in which a getInstance throws leaves both cache fields as they
\* were
FailureKeepsCache ==
  (Len(events') = Len(events) + 1 /\ events'[Len(events')].k = "failed") =>
    /\ cachedStripeClient' = cachedStripeClient
    /\ cachedSecretArn' = cachedSecretArn

\* what the cache held when event i happened, going by the events before
\* it: <<arn, client id>> of the latest client built if no clearCache
\* followed it, or nothing
HeldAt(i) ==
  LET changes == {m \in 1..(i - 1) : events[m].k \in {"built", "clear"}}
  IN IF changes = {} THEN <<>>
     ELSE LET m == CHOOSE m \in changes : \A n \in changes : n <= m
          IN IF events[m].k = "clear" THEN <<>>
             ELSE <<events[m].arn, events[m].client>>

\* a getInstance called right after a failed one finds the cache as the
\* failed call found it: it is served the client held for its ARN, and
\* fetches when nothing or another ARN's client was held
ServedAsBeforeFailure ==
  \A i \in 1..(Len(events) - 1) :
    (events[i].k = "failed" /\ IsBegin(events[i + 1])) =>
      IF HeldAt(i) # <<>> /\ HeldAt(i)[1] = events[i + 1].arn
      THEN events[i + 1].k = "hit" /\ events[i + 1].client = HeldAt(i)[2]
      ELSE events[i + 1].k = "fetch"

\* C26: a getInstance that fails (fetch error, empty secret, credential
\* without the sk_ prefix) leaves both cache fields unchanged: a client
\* cached earlier for another ARN is still returned, without a fetch, by a
\* later getInstance for that ARN, and a failure on an empty cache leaves it
\* empty.
C26_FailureLeavesCache ==
  [][FailureKeepsCache]_vars /\ []ServedAsBeforeFailure

\* C26 witness: a client was cached for one ARN, a call for the other ARN
\* failed, and the next call for the first ARN got the cached client
\* without a fetch.
C26_Witness ==
  /\ Len(events) = 5
  /\ events[2].k = "built"
  /\ events[3].k = "fetch" /\ events[3].arn # events[2].arn
  /\ events[4].k = "failed" /\ events[4].call = events[3].call
  /\ events[5].k = "hit"
  /\ events[5].arn = events[2].arn
  /\ events[5].client = events[2].client
  /\ cachedSecretArn = events[2].arn

\* the secrets the construct creates when it is given neither secretValue
\* nor existingSecretArn
PlaceholderSecrets ==
  {StripeSecretConstruct(Obj(<<>>), generated).SecretString :
     generated \in Generations}

\* the text is a JSON object of two members, one of them apiKey with the
\* value PLACEHOLDER and the other a generated string
PlaceholderJSON(text) ==
  \E string \in GeneratedStrings :
    LET apiKey == <<"\"", "a", "p", "i", "K", "e", "y", "\"", ":", "\"", "P",
        "L", "A", "C", "E", "H", "O", "L", "D", "E", "R", "\"">>
        other == <<"\"", "p", "l", "a", "c", "e", "h", "o", "l", "d", "e",
            "r", "\"", ":">> \o QuoteJSONString(string)
    IN text \in {<<"{">> \o apiKey \o <<",">> \o other \o <<"}">>,
                 <<"{">> \o other \o <<",">> \o apiKey \o <<"}">>}

\* the step ends a getInstance that was answered with a placeholder secret
AnsweredWithPlaceholder ==
  /\ Len(events') = Len(events) + 1
  /\ events'[Len(events')].k \in {"built", "failed"}
  /\ settled'.response \in {Resolved(s) : s \in PlaceholderSecrets}

\* C30: a secret created by StripeSecretConstruct without secretValue and
\* without existingSecretArn holds the placeholder JSON with apiKey
\* PLACEHOLDER; as long as it is not overwritten with a real key, every
\* getInstance for its ARN fails with the invalid-key-format error and
\* caches nothing.
C30_PlaceholderRejected ==
  [][AnsweredWithPlaceholder =>
       /\ PlaceholderJSON(settled'.response.SecretString.s)
       /\ settled'.k = "threw"
       /\ settled'.error = NewError(FailedToFetch \o InvalidFormat)
       /\ cachedStripeClient' = cachedStripeClient
       /\ cachedSecretArn' = cachedSecretArn]_vars

\* C30 witness: with the client of the other ARN cached, a getInstance for
\* the ARN whose secret still held the placeholder threw the invalid-format
\* error, and the cache still holds the other client.
C30_Witness ==
  /\ settled.k = "threw"
  /\ settled.response \in {Resolved(s) : s \in PlaceholderSecrets}
  /\ settled.error = NewError(FailedToFetch \o InvalidFormat)
  /\ Len(events) = 4
  /\ events[2].k = "built"
  /\ events[4].k = "failed"
  /\ events[4].arn # events[2].arn
  /\ cachedSecretArn = events[2].arn
  /\ cachedStripeClient.id = events[2].client

====
